---- MODULE Spec2Model ----
(***************************************************************************)
(* Dispatch pipeline of the Tc-99m isotope router: time-matrix build,      *)
(* disruption rewrite, solve, plan export and the Optimize endpoint.       *)
(*                                                                         *)
(* Units.  Coordinates are integers in 0.1 km on a plane (lat, lon play    *)
(* the part of the two axes); every hospital sits on a whole kilometre.    *)
(* Matrix entries are integers in 1/100 minute.  Potency is an integer in  *)
(* 1/10 percent (350 is 35.0 %).                                           *)
(***************************************************************************)
EXTENDS Integers, Sequences, FiniteSets, TLC

VARIABLES
    hospitals,         \* self.hospitals: node index 0..N-1 -> Hospital
    distance_matrix,   \* self.distance_matrix: [node -> [node -> 1/100 min]]
    avoid_point,       \* self.avoid_point
    snapped_incident,  \* self.snapped_incident
    num_vehicles,      \* self.num_vehicles
    routes_file,       \* content of output/routes.json
    response,          \* what the last caller of an entry point received
    original,          \* history: the matrix before the last rewrite or solve
    incident,          \* history: the avoid-point handed to the last rewrite
    solution,          \* history: what the solver returned to the last solve
    rewrites,          \* history: number of disruption rewrites of this optimizer
    pc,                \* where the run of the program stands
    scenario,          \* how far the last run_m5_scenario came
    jobs               \* the requests in flight in the service's worker threads

vars == <<hospitals, distance_matrix, avoid_point, snapped_incident, num_vehicles,
          routes_file, response, original, incident, solution, rewrites, pc,
          scenario, jobs>>

\* an absent duration (Python's None where a number is expected)
None == 0 - 1

----------------------------------------------------------------------------
(* Bounds of the model *)

\* router durations offered to a rewrite: 0, Step, ..., MaxRouterSteps * Step
MaxRouterSteps == 1
\* disruption rewrites applied to one optimizer instance
MaxRewrites == 2
\* spacing of the router durations, in 1/100 minute
DurationStep == 60000
\* requests in flight at once
MaxJobs == 2
\* greatest tier value handed to get_priority_weight
MaxTier == 5
\* greatest elapsed time, in minutes, handed to calculate_remaining_activity
MaxElapsed == 12
\* greatest undisturbed driving time, in minutes, to the targeted stop
MaxBaseTime == 80

----------------------------------------------------------------------------
(* Program constants *)

FUTILITY_THRESHOLD == 35
DOSE_VALUE_AUD == 1500
HARD_CAP_MIN == 720
HORIZON_MIN == 1440
VEHICLE_CAPACITY == 10
DEFAULT_NUM_VEHICLES == 4

----------------------------------------------------------------------------
(* Geography *)

Abs(x) == IF x < 0 THEN -x ELSE x

Location(lat, lon) == [lat |-> lat, lon |-> lon]

\* an avoid-point argument: a point, or Python's None
AvoidPoint(lat, lon) == [set |-> TRUE, lat |-> lat, lon |-> lon]
NoAvoidPoint == [set |-> FALSE, lat |-> 0, lon |-> 0]

RECURSIVE IsqrtBetween(_, _, _)
IsqrtBetween(s, lo, hi) ==
    IF lo >= hi THEN lo
    ELSE LET mid == (lo + hi + 1) \div 2
         IN  IF mid * mid <= s THEN IsqrtBetween(s, mid, hi)
                               ELSE IsqrtBetween(s, lo, mid - 1)

\* distance of two points in 0.1 km (planar stand-in for the great circle);
\* exact whenever the two points share a coordinate
get_haversine_distance(origin, destination) ==
    LET dlat == Abs(destination.lat - origin.lat)
        dlon == Abs(destination.lon - origin.lon)
    IN  IF dlon = 0 THEN dlat
        ELSE IF dlat = 0 THEN dlon
        ELSE IsqrtBetween(dlat * dlat + dlon * dlon, 0, dlat + dlon)

\* minutes * 100 for a distance in 0.1 km: (km * multiplier / speed) * 60
calculate_duration_fallback(distance, tier) ==
    IF tier \in {1, 2} THEN (distance * 168) \div 10
                       ELSE (distance * 75) \div 10

\* radius_km=2.0 of is_segment_impacted and the 50 km pre-filter, in km
RADIUS_KM == 2
PREFILTER_KM == 50

\* the i-th of the 11 sample points of the straight segment loc1 -> loc2
SamplePoint(loc1, loc2, i) ==
    Location(loc1.lat + ((loc2.lat - loc1.lat) * i) \div 10,
             loc1.lon + ((loc2.lon - loc1.lon) * i) \div 10)

is_segment_impacted(loc1, loc2, lat, lon) ==
    \E i \in 0..10 :
        get_haversine_distance(SamplePoint(loc1, loc2, i), Location(lat, lon)) < RADIUS_KM * 10

----------------------------------------------------------------------------
(* Hospitals *)

Hospital(name, lat, lon, tier) == [name |-> name, lat |-> lat, lon |-> lon, tier |-> tier]

Nodes(hs) == DOMAIN hs

Arcs(hs) == {a \in Nodes(hs) \X Nodes(hs) : a[1] # a[2]}

LocOf(h) == Location(h.lat, h.lon)

FromSeq(s) == [i \in 0..(Len(s) - 1) |-> s[i + 1]]

\* the three hospitals of tests/test_optimizer.py, 10 km up and 40 km down the axis
TestHospitals ==
    FromSeq(<<Hospital("Source", 0, 0, 0), Hospital("Dest1", 100, 0, 1),
              Hospital("Dest2", 0 - 400, 0, 3)>>)

\* a depot and two hospitals 120 km apart
SpreadHospitals ==
    FromSeq(<<Hospital("ANSTO", 0 - 1000, 0, 0), Hospital("Metro", 0 - 550, 0, 1),
              Hospital("Regional", 650, 0, 2)>>)

\* the two hospitals of test_no_solution_case
TwoHospitals ==
    FromSeq(<<Hospital("Source", 0, 0, 0), Hospital("Dest1", 100, 0, 1)>>)

\* avoid-points: halfway Source-Dest1 (and on the middle sample of Metro-Regional,
\* 60 km from both), 1 km beside the second sample of Metro-Regional, and far away
AvoidPoints ==
    {AvoidPoint(50, 0), AvoidPoint(0 - 430, 10), AvoidPoint(20000, 0)}

----------------------------------------------------------------------------
(* Transit client and matrix build *)

TripOutcomes == {"journey", "no_journey", "non200", "throws"}

\* TfNSWClient.get_trip_duration: 45.0 minutes or None
get_trip_duration(token, outcome) ==
    IF ~token THEN None
    ELSE IF outcome = "journey" THEN 4500
    ELSE None

\* a build that stores what the client gave, an absent duration included
generate_without_fallback(locations, client, outcomes) ==
    [i \in Nodes(locations) |-> [j \in Nodes(locations) |->
        IF i = j THEN 0
        ELSE IF client.present /\ client.token
             THEN get_trip_duration(client.token, outcomes[<<i, j>>])
             ELSE None]]

\* client: [present, token]; outcomes: what each arc's request meets
generate_distance_matrix(locations, client, outcomes) ==
    LET use_api == client.present /\ client.token
    IN  [i \in Nodes(locations) |-> [j \in Nodes(locations) |->
            IF i = j THEN 0
            ELSE LET duration == IF use_api
                                 THEN get_trip_duration(client.token, outcomes[<<i, j>>])
                                 ELSE None
                 IN  IF duration = None
                     THEN calculate_duration_fallback(
                              get_haversine_distance(LocOf(locations[i]), LocOf(locations[j])),
                              locations[j].tier)
                     ELSE duration]]

Clients == {[present |-> FALSE, token |-> FALSE], [present |-> TRUE, token |-> FALSE],
            [present |-> TRUE, token |-> TRUE]}

----------------------------------------------------------------------------
(* Road router *)

RouterDurations == {k * DurationStep : k \in 0..MaxRouterSteps}

RouterFailure == [ok |-> FALSE, duration |-> 0]

RouterOutcomes == {[ok |-> TRUE, duration |-> d] : d \in RouterDurations} \cup {RouterFailure}

\* fetch_osrm_route_data: the routed duration, or the tier-1 analytic fallback
fetch_osrm_route_data(origin, dest, avoid, outcome) ==
    LET use_detour == avoid.set /\ is_segment_impacted(origin, dest, avoid.lat, avoid.lon)
    IN  IF outcome.ok
        THEN [duration_min |-> outcome.duration, detoured |-> use_detour]
        ELSE [duration_min |-> calculate_duration_fallback(
                                   get_haversine_distance(origin, dest), 1),
              detoured |-> FALSE]

Max(a, b) == IF b > a THEN b ELSE a

\* both endpoints more than 50 km from the incident
PreFiltered(hs, i, j, ap) ==
    /\ get_haversine_distance(LocOf(hs[i]), ap) > PREFILTER_KM * 10
    /\ get_haversine_distance(LocOf(hs[j]), ap) > PREFILTER_KM * 10

\* the arcs the rewrite asks the router about
QueriedArcs(hs, ap) ==
    {a \in Arcs(hs) : /\ ~PreFiltered(hs, a[1], a[2], ap)
                      /\ is_segment_impacted(LocOf(hs[a[1]]), LocOf(hs[a[2]]), ap.lat, ap.lon)}

\* the sentinel the rewrite is documented not to write, in minutes
SENTINEL == 999999

apply_sentinel(hs, matrix, ap, answers) ==
    [i \in Nodes(hs) |-> [j \in Nodes(hs) |->
        IF <<i, j>> \in QueriedArcs(hs, ap) THEN SENTINEL * 100 ELSE matrix[i][j]]]

apply_without_max(hs, matrix, ap, answers) ==
    [i \in Nodes(hs) |-> [j \in Nodes(hs) |->
        IF <<i, j>> \in QueriedArcs(hs, ap)
        THEN fetch_osrm_route_data(LocOf(hs[i]), LocOf(hs[j]), ap, answers[<<i, j>>]).duration_min
        ELSE matrix[i][j]]]

apply_without_filter(hs, matrix, ap, answers) ==
    [i \in Nodes(hs) |-> [j \in Nodes(hs) |->
        IF i # j
        THEN Max(matrix[i][j],
                 fetch_osrm_route_data(LocOf(hs[i]), LocOf(hs[j]), ap,
                     IF <<i, j>> \in DOMAIN answers THEN answers[<<i, j>>]
                                                    ELSE RouterFailure).duration_min)
        ELSE matrix[i][j]]]

\* IsotopeOptimizer._apply_osrm_detour_durations; answers: QueriedArcs -> RouterOutcomes
apply_osrm_detour_durations(hs, matrix, ap, answers) ==
    [i \in Nodes(hs) |-> [j \in Nodes(hs) |->
        IF i = j THEN matrix[i][j]
        ELSE IF PreFiltered(hs, i, j, ap) THEN matrix[i][j]
        ELSE IF is_segment_impacted(LocOf(hs[i]), LocOf(hs[j]), ap.lat, ap.lon)
             THEN Max(matrix[i][j],
                      fetch_osrm_route_data(LocOf(hs[i]), LocOf(hs[j]), ap,
                                            answers[<<i, j>>]).duration_min)
             ELSE matrix[i][j]]]

----------------------------------------------------------------------------
(* Construction *)

\* a matrix given in whole minutes, row by row
MatrixOf(rows) ==
    [i \in 0..(Len(rows) - 1) |-> [j \in 0..(Len(rows) - 1) |-> rows[i + 1][j + 1] * 100]]

\* the matrix of test_solve_simple_case
SimpleMatrix == MatrixOf(<<<<0, 10, 50>>, <<10, 0, 40>>, <<50, 40, 0>>>>)

\* the matrix of test_no_solution_case
HorizonMatrix == MatrixOf(<<<<0, 2000>>, <<2000, 0>>>>)

NoFile == [exists |-> FALSE]
NoSolution == [found |-> FALSE, routes |-> <<>>]
NoResponse == [status |-> 0]

\* no scenario run yet
NoScenario == [ran |-> FALSE, error |-> "", target_vid |-> None, routes_data |-> NoFile]

\* no request in flight
NoJobs == <<>>
NoSnap == [set |-> FALSE, lat |-> 0, lon |-> 0, name |-> ""]

\* the same answer on every arc
Uniform(hs, o) == [a \in Arcs(hs) |-> o]

\* the router answering every arc of one direction of travel alike
Directed(hs, out, back) == [a \in Arcs(hs) |-> IF a[1] < a[2] THEN out ELSE back]

\* IsotopeOptimizer.__init__ with custom_matrix
ConstructCustom(hs, custom_matrix) ==
    /\ hospitals = hs
    /\ distance_matrix = custom_matrix
    /\ avoid_point = NoAvoidPoint
    /\ snapped_incident = NoSnap

\* IsotopeOptimizer.__init__ without custom_matrix
ConstructGenerated(hs, client, outcomes) ==
    /\ hospitals = hs
    /\ distance_matrix = generate_distance_matrix(hs, client, outcomes)
    /\ avoid_point = NoAvoidPoint
    /\ snapped_incident = NoSnap

----------------------------------------------------------------------------
(* Specification of the time matrix: build, then disruption rewrites *)

InitMatrix ==
    /\ \/ ConstructCustom(TestHospitals, SimpleMatrix)
       \/ ConstructCustom(TwoHospitals, HorizonMatrix)
       \/ \E hs \in {TestHospitals, SpreadHospitals} : \E client \in Clients :
              \E o \in TripOutcomes : ConstructGenerated(hs, client, Uniform(hs, o))
    /\ num_vehicles = DEFAULT_NUM_VEHICLES
    /\ routes_file = NoFile
    /\ response = NoResponse
    /\ original = distance_matrix
    /\ incident = NoAvoidPoint
    /\ solution = NoSolution
    /\ rewrites = 0
    /\ scenario = NoScenario
    /\ jobs = NoJobs
    /\ pc = "constructed"

\* one call of _apply_osrm_detour_durations
ApplyDetour ==
    /\ rewrites < MaxRewrites
    /\ \E ap \in AvoidPoints : \E out, back \in RouterOutcomes :
          /\ distance_matrix' = apply_osrm_detour_durations(hospitals, distance_matrix, ap,
                                                            Directed(hospitals, out, back))
          /\ incident' = ap
    /\ original' = distance_matrix
    /\ rewrites' = rewrites + 1
    /\ UNCHANGED <<hospitals, avoid_point, snapped_incident, num_vehicles,
                   routes_file, response, solution, pc, scenario, jobs>>

NextMatrix == ApplyDetour

SpecMatrix == InitMatrix /\ [][NextMatrix]_vars

\* one call of _apply_osrm_detour_durations on a fresh optimizer, what the router
\* answered in each direction of travel kept in response
ApplyDetourOnce ==
    /\ rewrites = 0
    /\ \E ap \in AvoidPoints : \E out, back \in RouterOutcomes :
          /\ distance_matrix' = apply_osrm_detour_durations(hospitals, distance_matrix, ap,
                                                            Directed(hospitals, out, back))
          /\ incident' = ap
          /\ response' = [out |-> out, back |-> back]
    /\ original' = distance_matrix
    /\ rewrites' = 1
    /\ UNCHANGED <<hospitals, avoid_point, snapped_incident, num_vehicles,
                   routes_file, solution, pc, scenario, jobs>>

NextDetour == ApplyDetourOnce

SpecDetour == InitMatrix /\ [][NextDetour]_vars

\* C1: no cell of the time matrix is smaller after _apply_osrm_detour_durations
\* than it was before the call, whatever the router answered.
C1_NoCellDecreases ==
    \A i \in Nodes(hospitals) : \A j \in Nodes(hospitals) :
        distance_matrix[i][j] >= original[i][j]

\* a rewrite that met a router duration below the entry, and one that met a failure
C1_Witness ==
    /\ rewrites > 0
    /\ \E a \in QueriedArcs(hospitals, incident) :
          /\ original[a[1]][a[2]] > 0
          /\ distance_matrix[a[1]][a[2]] = original[a[1]][a[2]]
    /\ \E a \in QueriedArcs(hospitals, incident) :
          distance_matrix[a[1]][a[2]] > original[a[1]][a[2]]

\* C2: after the build and after any number of rewrites every entry of the time
\* matrix is finite and non-negative, the diagonal is 0, and no sentinel is stored.
C2_FiniteNonNegative ==
    \A i \in Nodes(hospitals) : \A j \in Nodes(hospitals) :
        /\ distance_matrix[i][j] >= 0
        /\ distance_matrix[i][j] \in Nat
        /\ distance_matrix[i][j] # SENTINEL * 100
        /\ i = j => distance_matrix[i][j] = 0

\* two rewrites have run and the later one changed a cell
C2_Witness ==
    /\ rewrites >= 2
    /\ \E a \in QueriedArcs(hospitals, incident) :
          distance_matrix[a[1]][a[2]] > original[a[1]][a[2]]

\* C3: the rewrite leaves unchanged every cell whose segment has no sample within
\* 2 km of the avoid-point and every cell whose endpoints are both more than 50 km
\* from it; with no such cell touched, a far avoid-point changes nothing.
C3_UntouchedCellsUnchanged ==
    rewrites > 0 =>
        /\ \A i \in Nodes(hospitals) : \A j \in Nodes(hospitals) :
              (\/ ~is_segment_impacted(LocOf(hospitals[i]), LocOf(hospitals[j]),
                                       incident.lat, incident.lon)
               \/ PreFiltered(hospitals, i, j, incident))
              => distance_matrix[i][j] = original[i][j]
        /\ (\A i \in Nodes(hospitals) :
               get_haversine_distance(LocOf(hospitals[i]), incident) > PREFILTER_KM * 10)
           => distance_matrix = original

\* a rewrite changed one cell and kept another that is near but not impacted
C3_Witness ==
    /\ rewrites > 0
    /\ distance_matrix # original
    /\ \E a \in Arcs(hospitals) :
          /\ ~PreFiltered(hospitals, a[1], a[2], incident)
          /\ ~is_segment_impacted(LocOf(hospitals[a[1]]), LocOf(hospitals[a[2]]),
                                  incident.lat, incident.lon)
          /\ distance_matrix[a[1]][a[2]] = original[a[1]][a[2]]

----------------------------------------------------------------------------
(* Decay: INITIAL_ACTIVITY * math.exp(-LAMBDA * arr_min / 60.0) *)

\* the potency at each whole arrival minute 0..1440, in 1/1000000 percent, rounded
\* down (100.0 * exp(-(ln 2 / 6.0) * (m / 60.0)) evaluated in IEEE doubles)
POTENCY_MICRO ==
    <<
      100000000, 99807644, 99615658, 99424042, 99232794, 99041914, 98851402, 98661255, 98471475, 98282059,
      98093008, 97904321, 97715996, 97528034, 97340433, 97153194, 96966314, 96779794, 96593632, 96407829,
      96222383, 96037294, 95852561, 95668183, 95484160, 95300491, 95117175, 94934212, 94751600, 94569340,
      94387431, 94205871, 94024661, 93843799, 93663285, 93483119, 93303299, 93123824, 92944696, 92765911,
      92587471, 92409374, 92231619, 92054206, 91877135, 91700404, 91524013, 91347961, 91172248, 90996873,
      90821836, 90647135, 90472770, 90298740, 90125046, 89951685, 89778658, 89605964, 89433602, 89261571,
      89089871, 88918502, 88747462, 88576751, 88406369, 88236314, 88066587, 87897186, 87728111, 87559361,
      87390935, 87222834, 87055056, 86887601, 86720467, 86553656, 86387165, 86220994, 86055143, 85889611,
      85724398, 85559502, 85394924, 85230662, 85066716, 84903085, 84739769, 84576767, 84414079, 84251704,
      84089641, 83927890, 83766450, 83605320, 83444501, 83283991, 83123789, 82963896, 82804310, 82645031,
      82486059, 82327392, 82169031, 82010974, 81853221, 81695772, 81538626, 81381782, 81225239, 81068998,
      80913057, 80757416, 80602075, 80447032, 80292288, 80137841, 79983691, 79829838, 79676281, 79523019,
      79370052, 79217379, 79065000, 78912914, 78761121, 78609619, 78458409, 78307490, 78156861, 78006522,
      77856472, 77706711, 77557238, 77408052, 77259153, 77110541, 76962214, 76814173, 76666417, 76518945,
      76371756, 76224851, 76078228, 75931887, 75785828, 75640050, 75494552, 75349334, 75204395, 75059735,
      74915353, 74771249, 74627423, 74483873, 74340599, 74197600, 74054877, 73912428, 73770254, 73628352,
      73486724, 73345368, 73204284, 73063472, 72922930, 72782659, 72642657, 72502925, 72363461, 72224266,
      72085339, 71946679, 71808285, 71670158, 71532296, 71394700, 71257368, 71120300, 70983496, 70846956,
      70710678, 70574662, 70438907, 70303414, 70168181, 70033209, 69898496, 69764043, 69629847, 69495910,
      69362231, 69228809, 69095643, 68962734, 68830080, 68697682, 68565538, 68433648, 68302012, 68170630,
      68039500, 67908622, 67777996, 67647621, 67517497, 67387623, 67257999, 67128625, 66999499, 66870622,
      66741992, 66613610, 66485475, 66357587, 66229944, 66102547, 65975395, 65848488, 65721824, 65595405,
      65469228, 65343295, 65217603, 65092153, 64966945, 64841977, 64717250, 64592763, 64468515, 64344506,
      64220736, 64097204, 63973909, 63850852, 63728031, 63605446, 63483098, 63360984, 63239106, 63117462,
      62996052, 62874876, 62753932, 62633221, 62512743, 62392496, 62272481, 62152696, 62033142, 61913818,
      61794723, 61675857, 61557220, 61438811, 61320630, 61202677, 61084950, 60967450, 60850175, 60733126,
      60616303, 60499704, 60383329, 60267179, 60151251, 60035547, 59920065, 59804806, 59689768, 59574951,
      59460355, 59345980, 59231825, 59117889, 59004172, 58890674, 58777395, 58664333, 58551489, 58438862,
      58326451, 58214257, 58102279, 57990516, 57878968, 57767634, 57656515, 57545609, 57434917, 57324438,
      57214171, 57104116, 56994273, 56884642, 56775221, 56666011, 56557010, 56448220, 56339638, 56231266,
      56123102, 56015146, 55907398, 55799857, 55692522, 55585395, 55478473, 55371757, 55265246, 55158941,
      55052839, 54946942, 54841248, 54735758, 54630471, 54525386, 54420503, 54315823, 54211343, 54107064,
      54002986, 53899109, 53795431, 53691952, 53588673, 53485592, 53382709, 53280025, 53177537, 53075247,
      52973154, 52871257, 52769557, 52668051, 52566741, 52465626, 52364706, 52263979, 52163446, 52063107,
      51962961, 51863007, 51763246, 51663676, 51564298, 51465111, 51366115, 51267310, 51168694, 51070268,
      50972032, 50873984, 50776125, 50678454, 50580972, 50483676, 50386568, 50289647, 50192912, 50096363,
      50000000, 49903822, 49807829, 49712021, 49616397, 49520957, 49425701, 49330627, 49235737, 49141029,
      49046504, 48952160, 48857998, 48764017, 48670216, 48576597, 48483157, 48389897, 48296816, 48203914,
      48111191, 48018647, 47926280, 47834091, 47742080, 47650245, 47558587, 47467106, 47375800, 47284670,
      47193715, 47102935, 47012330, 46921899, 46831642, 46741559, 46651649, 46561912, 46472348, 46382955,
      46293735, 46204687, 46115809, 46027103, 45938567, 45850202, 45762006, 45673980, 45586124, 45498436,
      45410918, 45323567, 45236385, 45149370, 45062523, 44975842, 44889329, 44802982, 44716801, 44630785,
      44544935, 44459251, 44373731, 44288375, 44203184, 44118157, 44033293, 43948593, 43864055, 43779680,
      43695467, 43611417, 43527528, 43443800, 43360233, 43276828, 43193582, 43110497, 43027571, 42944805,
      42862199, 42779751, 42697462, 42615331, 42533358, 42451542, 42369884, 42288383, 42207039, 42125852,
      42044820, 41963945, 41883225, 41802660, 41722250, 41641995, 41561894, 41481948, 41402155, 41322515,
      41243029, 41163696, 41084515, 41005487, 40926610, 40847886, 40769313, 40690891, 40612619, 40534499,
      40456528, 40378708, 40301037, 40223516, 40146144, 40068920, 39991845, 39914919, 39838140, 39761509,
      39685026, 39608689, 39532500, 39456457, 39380560, 39304809, 39229204, 39153745, 39078430, 39003261,
      38928236, 38853355, 38778619, 38704026, 38629576, 38555270, 38481107, 38407086, 38333208, 38259472,
      38185878, 38112425, 38039114, 37965943, 37892914, 37820025, 37747276, 37674667, 37602197, 37529867,
      37457676, 37385624, 37313711, 37241936, 37170299, 37098800, 37027438, 36956214, 36885127, 36814176,
      36743362, 36672684, 36602142, 36531736, 36461465, 36391329, 36321328, 36251462, 36181730, 36112133,
      36042669, 35973339, 35904142, 35835079, 35766148, 35697350, 35628684, 35560150, 35491748, 35423478,
      35355339, 35287331, 35219453, 35151707, 35084090, 35016604, 34949248, 34882021, 34814923, 34747955,
      34681115, 34614404, 34547821, 34481367, 34415040, 34348841, 34282769, 34216824, 34151006, 34085315,
      34019750, 33954311, 33888998, 33823810, 33758748, 33693811, 33628999, 33564312, 33499749, 33435311,
      33370996, 33306805, 33242737, 33178793, 33114972, 33051273, 32987697, 32924244, 32860912, 32797702,
      32734614, 32671647, 32608801, 32546076, 32483472, 32420988, 32358625, 32296381, 32234257, 32172253,
      32110368, 32048602, 31986954, 31925426, 31864015, 31802723, 31741549, 31680492, 31619553, 31558731,
      31498026, 31437438, 31376966, 31316610, 31256371, 31196248, 31136240, 31076348, 31016571, 30956909,
      30897361, 30837928, 30778610, 30719405, 30660315, 30601338, 30542475, 30483725, 30425087, 30366563,
      30308151, 30249852, 30191664, 30133589, 30075625, 30017773, 29960032, 29902403, 29844884, 29787475,
      29730177, 29672990, 29615912, 29558944, 29502086, 29445337, 29388697, 29332166, 29275744, 29219431,
      29163225, 29107128, 29051139, 28995258, 28939484, 28883817, 28828257, 28772804, 28717458, 28662219,
      28607085, 28552058, 28497136, 28442321, 28387610, 28333005, 28278505, 28224110, 28169819, 28115633,
      28061551, 28007573, 27953699, 27899928, 27846261, 27792697, 27739236, 27685878, 27632623, 27579470,
      27526419, 27473471, 27420624, 27367879, 27315235, 27262693, 27210251, 27157911, 27105671, 27053532,
      27001493, 26949554, 26897715, 26845976, 26794336, 26742796, 26691354, 26640012, 26588768, 26537623,
      26486577, 26435628, 26384778, 26334025, 26283370, 26232813, 26182353, 26131989, 26081723, 26031553,
      25981480, 25931503, 25881623, 25831838, 25782149, 25732555, 25683057, 25633655, 25584347, 25535134,
      25486016, 25436992, 25388062, 25339227, 25290486, 25241838, 25193284, 25144823, 25096456, 25048181,
      25000000, 24951911, 24903914, 24856010, 24808198, 24760478, 24712850, 24665313, 24617868, 24570514,
      24523252, 24476080, 24428999, 24382008, 24335108, 24288298, 24241578, 24194948, 24148408, 24101957,
      24055595, 24009323, 23963140, 23917045, 23871040, 23825122, 23779293, 23733553, 23687900, 23642335,
      23596857, 23551467, 23506165, 23460949, 23415821, 23370779, 23325824, 23280956, 23236174, 23191477,
      23146867, 23102343, 23057904, 23013551, 22969283, 22925101, 22881003, 22836990, 22793062, 22749218,
      22705459, 22661783, 22618192, 22574685, 22531261, 22487921, 22444664, 22401491, 22358400, 22315392,
      22272467, 22229625, 22186865, 22144187, 22101592, 22059078, 22016646, 21974296, 21932027, 21889840,
      21847733, 21805708, 21763764, 21721900, 21680116, 21638414, 21596791, 21555248, 21513785, 21472402,
      21431099, 21389875, 21348731, 21307665, 21266679, 21225771, 21184942, 21144191, 21103519, 21062926,
      21022410, 20981972, 20941612, 20901330, 20861125, 20820997, 20780947, 20740974, 20701077, 20661257,
      20621514, 20581848, 20542257, 20502743, 20463305, 20423943, 20384656, 20345445, 20306309, 20267249,
      20228264, 20189354, 20150518, 20111758, 20073072, 20034460, 19995922, 19957459, 19919070, 19880754,
      19842513, 19804344, 19766250, 19728228, 19690280, 19652404, 19614602, 19576872, 19539215, 19501630,
      19464118, 19426677, 19389309, 19352013, 19314788, 19277635, 19240553, 19203543, 19166604, 19129736,
      19092939, 19056212, 19019557, 18982971, 18946457, 18910012, 18873638, 18837333, 18801098, 18764933,
      18728838, 18692812, 18656855, 18620968, 18585149, 18549400, 18513719, 18478107, 18442563, 18407088,
      18371681, 18336342, 18301071, 18265868, 18230732, 18195664, 18160664, 18125731, 18090865, 18056066,
      18021334, 17986669, 17952071, 17917539, 17883074, 17848675, 17814342, 17780075, 17745874, 17711739,
      17677669, 17643665, 17609726, 17575853, 17542045, 17508302, 17474624, 17441010, 17407461, 17373977,
      17340557, 17307202, 17273910, 17240683, 17207520, 17174420, 17141384, 17108412, 17075503, 17042657,
      17009875, 16977155, 16944499, 16911905, 16879374, 16846905, 16814499, 16782156, 16749874, 16717655,
      16685498, 16653402, 16621368, 16589396, 16557486, 16525636, 16493848, 16462122, 16430456, 16398851,
      16367307, 16335823, 16304400, 16273038, 16241736, 16210494, 16179312, 16148190, 16117128, 16086126,
      16055184, 16024301, 15993477, 15962713, 15932007, 15901361, 15870774, 15840246, 15809776, 15779365,
      15749013, 15718719, 15688483, 15658305, 15628185, 15598124, 15568120, 15538174, 15508285, 15478454,
      15448680, 15418964, 15389305, 15359702, 15330157, 15300669, 15271237, 15241862, 15212543, 15183281,
      15154075, 15124926, 15095832, 15066794, 15037812, 15008886, 14980016, 14951201, 14922442, 14893737,
      14865088, 14836495, 14807956, 14779472, 14751043, 14722668, 14694348, 14666083, 14637872, 14609715,
      14581612, 14553564, 14525569, 14497629, 14469742, 14441908, 14414128, 14386402, 14358729, 14331109,
      14303542, 14276029, 14248568, 14221160, 14193805, 14166502, 14139252, 14112055, 14084909, 14057816,
      14030775, 14003786, 13976849, 13949964, 13923130, 13896348, 13869618, 13842939, 13816311, 13789735,
      13763209, 13736735, 13710312, 13683939, 13657617, 13631346, 13605125, 13578955, 13552835, 13526766,
      13500746, 13474777, 13448857, 13422988, 13397168, 13371398, 13345677, 13320006, 13294384, 13268811,
      13243288, 13217814, 13192389, 13167012, 13141685, 13116406, 13091176, 13065994, 13040861, 13015776,
      12990740, 12965751, 12940811, 12915919, 12891074, 12866277, 12841528, 12816827, 12792173, 12767567,
      12743008, 12718496, 12694031, 12669613, 12645243, 12620919, 12596642, 12572411, 12548228, 12524090,
      12500000, 12475955, 12451957, 12428005, 12404099, 12380239, 12356425, 12332656, 12308934, 12285257,
      12261626, 12238040, 12214499, 12191004, 12167554, 12144149, 12120789, 12097474, 12074204, 12050978,
      12027797, 12004661, 11981570, 11958522, 11935520, 11912561, 11889646, 11866776, 11843950, 11821167,
      11798428, 11775733, 11753082, 11730474, 11707910, 11685389, 11662912, 11640478, 11618087, 11595738,
      11573433, 11551171, 11528952, 11506775, 11484641, 11462550, 11440501, 11418495, 11396531, 11374609,
      11352729, 11330891, 11309096, 11287342, 11265630, 11243960, 11222332, 11200745, 11179200, 11157696,
      11136233, 11114812, 11093432, 11072093, 11050796, 11029539, 11008323, 10987148, 10966013, 10944920,
      10923866, 10902854, 10881882, 10860950, 10840058, 10819207, 10798395, 10777624, 10756892, 10736201,
      10715549, 10694937, 10674365, 10653832, 10633339, 10612885, 10592471, 10572095, 10551759, 10531463,
      10511205, 10490986, 10470806, 10450665, 10430562, 10410498, 10390473, 10370487, 10350538, 10330628,
      10310757, 10290924, 10271128, 10251371, 10231652, 10211971, 10192328, 10172722, 10153154, 10133624,
      10114132, 10094677, 10075259, 10055879, 10036536, 10017230, 9997961, 9978729, 9959535, 9940377,
      9921256, 9902172, 9883125, 9864114, 9845140, 9826202, 9807301, 9788436, 9769607, 9750815,
      9732059, 9713338, 9694654, 9676006, 9657394, 9638817, 9620276, 9601771, 9583302, 9564868,
      9546469, 9528106, 9509778, 9491485, 9473228, 9455006, 9436819, 9418666, 9400549, 9382466,
      9364419, 9346406, 9328427, 9310484, 9292574, 9274700, 9256859, 9239053, 9221281, 9203544,
      9185840, 9168171, 9150535, 9132934, 9115366, 9097832, 9080332, 9062865, 9045432, 9028033,
      9010667, 8993334, 8976035, 8958769, 8941537, 8924337, 8907171, 8890037, 8872937, 8855869,
      8838834, 8821832, 8804863, 8787926, 8771022, 8754151, 8737312, 8720505, 8703730, 8686988,
      8670278, 8653601, 8636955, 8620341, 8603760, 8587210, 8570692, 8554206, 8537751, 8521328,
      8504937, 8488577, 8472249, 8455952, 8439687, 8423452, 8407249, 8391078, 8374937, 8358827,
      8342749, 8326701, 8310684, 8294698, 8278743, 8262818, 8246924, 8231061, 8215228, 8199425,
      8183653, 8167911, 8152200, 8136519, 8120868, 8105247, 8089656, 8074095, 8058564, 8043063,
      8027592, 8012150, 7996738, 7981356, 7966003, 7950680, 7935387, 7920123, 7904888, 7889682,
      7874506, 7859359, 7844241, 7829152, 7814092, 7799062, 7784060, 7769087, 7754142, 7739227,
      7724340, 7709482, 7694652, 7679851, 7665078, 7650334, 7635618, 7620931, 7606271, 7591640,
      7577037, 7562463, 7547916, 7533397, 7518906, 7504443, 7490008, 7475600, 7461221, 7446868,
      7432544, 7418247, 7403978, 7389736, 7375521, 7361334, 7347174, 7333041, 7318936, 7304857,
      7290806, 7276782, 7262784, 7248814, 7234871, 7220954, 7207064, 7193201, 7179364, 7165554,
      7151771, 7138014, 7124284, 7110580, 7096902, 7083251, 7069626, 7056027, 7042454, 7028908,
      7015387, 7001893, 6988424, 6974982, 6961565, 6948174, 6934809, 6921469, 6908155, 6894867,
      6881604, 6868367, 6855156, 6841969, 6828808, 6815673, 6802562, 6789477, 6776417, 6763383,
      6750373, 6737388, 6724428, 6711494, 6698584, 6685699, 6672838, 6660003, 6647192, 6634405,
      6621644, 6608907, 6596194, 6583506, 6570842, 6558203, 6545588, 6532997, 6520430, 6507888,
      6495370, 6482875, 6470405, 6457959, 6445537, 6433138, 6420764, 6408413, 6396086, 6383783,
      6371504, 6359248, 6347015, 6334806, 6322621, 6310459, 6298321, 6286205, 6274114, 6262045,
      6250000
    >>


PotencyMicro(arr_min) == POTENCY_MICRO[arr_min + 1]

\* round(potency, 1) in 1/10 percent: nearest tenth, an exact half to the even tenth
RoundedPotency(arr_min) ==
    LET m == PotencyMicro(arr_min)
        q == m \div 100000
        r == m % 100000
    IN  IF r > 50000 \/ (r = 50000 /\ q % 2 = 1) THEN q + 1 ELSE q

\* the label line 216-221 gives, from the unrounded potency
TriageOf(arr_min) ==
    IF PotencyMicro(arr_min) >= 70 * 1000000 THEN "OPTIMAL"
    ELSE IF PotencyMicro(arr_min) >= FUTILITY_THRESHOLD * 1000000 THEN "DEGRADED"
    ELSE "FUTILE"

----------------------------------------------------------------------------
(* IEEE doubles of the financial rollup.  A value is h/2 + d * 2^-52: the money  *)
(* amounts are whole or half units up to an error of a few units in the last    *)
(* place, and that error decides which way round() goes on a half.              *)

Float(h, d) == [h |-> h, d |-> d]

\* (potency / 100.0) * DOSE_VALUE_AUD minus its exact value 1.5 * potency, in 2^-52,
\* for the rounded potency 0.0, 0.1, ..., 100.0
PRESERVED_DEV ==
    <<
      0, 0, 0, 0, 0, 0, 0, -8, 0, 8, 0, 0, 0, 0, -16, 0,
      0, 16, 16, 0, 0, 16, 0, 0, 0, 0, 0, 32, -32, 0, 0, 0,
      0, 0, 32, 32, 32, 32, 0, 0, 0, -32, 32, 0, 0, 0, 0, 0,
      0, 0, 0, 0, 0, 0, 64, 0, -64, 0, 0, 0, 0, 0, 0, 0,
      0, 0, 0, 0, 64, 64, 64, -64, 64, 0, 64, 0, 0, 0, 0, 0,
      0, 0, -64, 0, 64, 64, 0, 0, 0, 128, 0, 0, 0, 128, 0, 0,
      0, -128, 0, 0, 0, 0, 0, 0, 0, 0, 0, 0, 128, 0, 0, 0,
      -128, 0, 0, 0, 0, 0, 0, 0, 0, 0, 0, 128, 0, 0, 0, 0,
      0, 0, 0, 0, 0, 0, 0, 0, 128, -128, 128, 128, 128, -128, -128, 128,
      128, -128, 0, 0, 128, 0, 0, 0, 0, 0, 0, 0, 0, 0, 0, 0,
      0, 0, 0, 0, -128, 0, 0, -128, 128, -128, 128, 0, 0, 0, 0, 0,
      0, 0, 256, 0, 0, 256, 0, 0, 0, 0, 256, 0, 0, -256, 0, 0,
      0, 0, -256, 0, 0, -256, 0, 0, 0, 0, 0, 0, 0, 0, 0, 0,
      0, 0, 0, 256, 0, 0, 0, 0, 256, 0, 0, -256, 0, 0, 0, 0,
      -256, 0, 0, -256, 0, 0, 0, 0, 0, 0, 0, 0, 0, 0, 0, 0,
      0, 256, 0, 0, 0, 0, 256, 0, 0, 0, 0, 0, 0, 0, 0, 0,
      0, 0, 0, 0, 0, 0, 0, 0, 0, 0, 0, 0, 0, -256, 0, 0,
      256, 256, -256, 256, 256, -256, 256, -256, 256, 256, -256, 256, -256, -256, 256, -256,
      256, -256, -256, 256, 0, 0, 0, 0, 256, 0, 0, 0, 0, 0, 0, 0,
      0, 0, 0, 0, 0, 0, 0, 0, 0, 0, 0, 0, 0, 0, 0, 0,
      0, 0, 0, -256, 0, 0, 0, 0, -256, -256, 0, 0, 0, -256, -256, 256,
      256, 256, -256, -256, 256, 256, 0, 0, 0, 0, 0, 0, 0, 0, 0, 0,
      0, 0, 0, 0, 512, 512, 0, 0, 0, 0, 512, 0, 0, 0, 0, 512,
      0, 0, 0, 0, 512, 0, 0, 0, 0, 0, -512, 0, 0, 0, 0, -512,
      0, 0, 0, 0, -512, 0, 0, 0, 0, -512, -512, 0, 0, 0, 0, 0,
      0, 0, 0, 0, 0, 0, 0, 0, 0, 0, 0, 0, 0, 0, 0, 0,
      0, 0, 0, 0, 0, 512, 512, 0, 0, 0, 0, 512, 0, 0, 0, 0,
      512, 0, 0, 0, 0, 512, -512, 0, 0, 0, 0, -512, 0, 0, 0, 0,
      -512, 0, 0, 0, 0, -512, -512, 0, 0, 0, 0, 0, 0, 0, 0, 0,
      0, 0, 0, 0, 0, 0, 0, 0, 0, 0, 0, 0, 0, 0, 0, 0,
      0, 512, 512, 0, 0, 0, 0, 512, 0, 0, 0, 0, 512, 0, 0, 0,
      0, 512, 0, 0, 0, 0, 0, 0, 0, 0, 0, 0, 0, 0, 0, 0,
      0, 0, 0, 0, 0, 0, 0, 0, 0, 0, 0, 0, 0, 0, 0, 0,
      0, 0, 0, 0, 0, -512, 0, 0, 0, 0, -512, 0, 0, 0, 0, -512,
      512, 512, 512, 512, -512, -512, 512, 512, 512, -512, -512, 512, 512, 512, -512, -512,
      512, 512, 512, -512, -512, -512, 512, 512, -512, -512, -512, 512, 512, -512, -512, -512,
      512, 512, -512, -512, -512, -512, 512, 0, 0, 0, 0, 512, 0, 0, 0, 0,
      512, 0, 0, 0, 0, 0, 0, 0, 0, 0, 0, 0, 0, 0, 0, 0,
      0, 0, 0, 0, 0, 0, 0, 0, 0, 0, 0, 0, 0, 0, 0, 0,
      0, 0, 0, 0, 0, 0, 0, 0, 0, 0, 0, 0, 0, 0, 0, 0,
      0, -512, 0, 0, 0, 0, -512, 0, 0, 0, 0, -512, 0, 0, 0, 0,
      -512, 0, -512, 0, 0, -512, 0, -512, 0, 0, -512, 0, -512, 512, 512, -512,
      512, -512, 512, 512, -512, 512, -512, 512, 512, -512, 512, 0, 0, 0, 0, 0,
      0, 0, 0, 0, 0, 0, 0, 0, 0, 0, 0, 0, 0, 0, 0, 0,
      0, 0, 0, 0, 0, 0, 0, 0, 1024, 0, 1024, 0, 0, 1024, 0, 1024,
      0, 0, 0, 0, 1024, 0, 0, 0, 0, 1024, 0, 0, 0, 0, 1024, 0,
      0, 0, 0, 1024, 0, 0, 0, 0, 1024, 0, 0, 0, 0, 1024, 0, -1024,
      0, 0, 0, 0, -1024, 0, 0, 0, 0, -1024, 0, 0, 0, 0, -1024, 0,
      0, 0, 0, -1024, 0, 0, 0, 0, -1024, 0, 0, 0, 0, -1024, 0, -1024,
      0, 0, -1024, 0, -1024, 0, 0, 0, 0, 0, 0, 0, 0, 0, 0, 0,
      0, 0, 0, 0, 0, 0, 0, 0, 0, 0, 0, 0, 0, 0, 0, 0,
      0, 0, 0, 0, 0, 0, 0, 0, 0, 0, 0, 0, 0, 0, 0, 0,
      0, 0, 0, 0, 0, 1024, 0, 1024, 0, 0, 1024, 0, 1024, 0, 0, 0,
      0, 1024, 0, 0, 0, 0, 1024, 0, 0, 0, 0, 1024, 0, 0, 0, 0,
      1024, 0, 0, 0, 0, 1024, 0, 0, 0, 0, 1024, 0, -1024, 0, 0, 0,
      0, -1024, 0, 0, 0, 0, -1024, 0, 0, 0, 0, -1024, 0, 0, 0, 0,
      -1024, 0, 0, 0, 0, -1024, 0, 0, 0, 0, -1024, 0, -1024, 0, 0, -1024,
      0, -1024, 0, 0, 0, 0, 0, 0, 0, 0, 0, 0, 0, 0, 0, 0,
      0, 0, 0, 0, 0, 0, 0, 0, 0, 0, 0, 0, 0, 0, 0, 0,
      0, 0, 0, 0, 0, 0, 0, 0, 0, 0, 0, 0, 0, 0, 0, 0,
      0, 0, 1024, 0, 1024, 0, 0, 1024, 0, 1024, 0, 0, 0, 0, 1024, 0,
      0, 0, 0, 1024, 0, 0, 0, 0, 1024, 0, 0, 0, 0, 1024, 0, 0,
      0, 0, 1024, 0, 0, 0, 0, 1024, 0
    >>

\* ((100 - potency) / 100.0) * DOSE_VALUE_AUD minus its exact value, in 2^-52
WASTE_DEV ==
    <<
      0, 1024, 0, 0, 0, 0, 1024, 0, 0, 0, 0, 1024, 0, 0, 0, 0,
      1024, 0, 0, 0, 0, 1024, 0, 0, 0, 0, 1024, 0, 0, 0, 0, 1024,
      0, 1024, 0, 0, 1024, 0, 1024, 0, 0, 0, 0, 0, 0, 0, 0, 0,
      0, 0, 0, 0, 0, 0, 0, 0, 0, 0, 0, 0, 0, 0, 0, 0,
      0, 0, 0, 0, 0, 0, 0, 0, 0, 0, 0, 0, 0, 0, 0, 0,
      0, 0, 0, 0, 0, 0, 0, -1024, 0, -1024, 0, 0, -1024, 0, -1024, 0,
      0, 0, 0, -1024, 0, 0, 0, 0, -1024, 0, 0, 0, 0, -1024, 0, 0,
      0, 0, -1024, 0, 0, 0, 0, -1024, 0, 0, 0, 0, -1024, 0, 1024, 0,
      0, 0, 0, 1024, 0, 0, 0, 0, 1024, 0, 0, 0, 0, 1024, 0, 0,
      0, 0, 1024, 0, 0, 0, 0, 1024, 0, 0, 0, 0, 1024, 0, 1024, 0,
      0, 1024, 0, 1024, 0, 0, 0, 0, 0, 0, 0, 0, 0, 0, 0, 0,
      0, 0, 0, 0, 0, 0, 0, 0, 0, 0, 0, 0, 0, 0, 0, 0,
      0, 0, 0, 0, 0, 0, 0, 0, 0, 0, 0, 0, 0, 0, 0, 0,
      0, 0, 0, 0, -1024, 0, -1024, 0, 0, -1024, 0, -1024, 0, 0, 0, 0,
      -1024, 0, 0, 0, 0, -1024, 0, 0, 0, 0, -1024, 0, 0, 0, 0, -1024,
      0, 0, 0, 0, -1024, 0, 0, 0, 0, -1024, 0, 1024, 0, 0, 0, 0,
      1024, 0, 0, 0, 0, 1024, 0, 0, 0, 0, 1024, 0, 0, 0, 0, 1024,
      0, 0, 0, 0, 1024, 0, 0, 0, 0, 1024, 0, 1024, 0, 0, 1024, 0,
      1024, 0, 0, 0, 0, 0, 0, 0, 0, 0, 0, 0, 0, 0, 0, 0,
      0, 0, 0, 0, 0, 0, 0, 0, 0, 0, 0, 0, 0, 0, 512, -512,
      512, 512, -512, 512, -512, 512, 512, -512, 512, -512, 512, 512, -512, 0, -512, 0,
      0, -512, 0, -512, 0, 0, -512, 0, -512, 0, 0, 0, 0, -512, 0, 0,
      0, 0, -512, 0, 0, 0, 0, -512, 0, 0, 0, 0, 0, 0, 0, 0,
      0, 0, 0, 0, 0, 0, 0, 0, 0, 0, 0, 0, 0, 0, 0, 0,
      0, 0, 0, 0, 0, 0, 0, 0, 0, 0, 0, 0, 0, 0, 0, 0,
      0, 0, 0, 0, 0, 0, 0, 0, 512, 0, 0, 0, 0, 512, 0, 0,
      0, 0, 512, -512, -512, -512, -512, 512, 512, -512, -512, -512, 512, 512, -512, -512,
      -512, 512, 512, -512, -512, -512, 512, 512, 512, -512, -512, 512, 512, 512, -512, -512,
      512, 512, 512, -512, -512, 512, 512, 512, 512, -512, 0, 0, 0, 0, -512, 0,
      0, 0, 0, -512, 0, 0, 0, 0, 0, 0, 0, 0, 0, 0, 0, 0,
      0, 0, 0, 0, 0, 0, 0, 0, 0, 0, 0, 0, 0, 0, 0, 0,
      0, 0, 0, 0, 0, 0, 0, 512, 0, 0, 0, 0, 512, 0, 0, 0,
      0, 512, 0, 0, 0, 0, 512, 512, 0, 0, 0, 0, 0, 0, 0, 0,
      0, 0, 0, 0, 0, 0, 0, 0, 0, 0, 0, 0, 0, 0, 0, 0,
      0, 0, -512, -512, 0, 0, 0, 0, -512, 0, 0, 0, 0, -512, 0, 0,
      0, 0, -512, 512, 0, 0, 0, 0, 512, 0, 0, 0, 0, 512, 0, 0,
      0, 0, 512, 512, 0, 0, 0, 0, 0, 0, 0, 0, 0, 0, 0, 0,
      0, 0, 0, 0, 0, 0, 0, 0, 0, 0, 0, 0, 0, 0, -512, -512,
      0, 0, 0, 0, -512, 0, 0, 0, 0, -512, 0, 0, 0, 0, -512, 0,
      0, 0, 0, 0, 512, 0, 0, 0, 0, 512, 0, 0, 0, 0, 512, 0,
      0, 512, 0, 512, -512, 0, 0, 0, 0, -512, 0, 0, 0, 0, -512, 0,
      512, 0, 0, -256, 256, 512, -256, 256, -256, 256, 512, -256, 0, -256, 0, 512,
      -256, 0, -256, 0, 512, -256, 0, -256, 0, 512, -256, 0, -256, 0, 512, -256,
      256, -512, 0, 256, 0, 256, -512, 0, 256, 0, 256, -512, 0, 256, 0, 256,
      -512, 0, 256, 0, 256, -512, -256, 256, -256, 256, -512, -256, 256, -256, 256, -512,
      256, 512, -256, 256, -256, 256, 512, -256, 256, -256, 0, 512, -256, 0, -256, 0,
      512, -256, 0, -256, 0, 512, -256, 0, -256, 0, 512, -256, 0, -256, 0, 256,
      -256, 256, -512, 0, 256, -256, 256, -512, 0, 256, -256, 0, -512, 0, 512, 0,
      256, -256, 0, 512, -256, 256, -256, 0, 512, -256, 256, -256, 0, 256, -256, 256,
      -512, 0, 256, -256, 256, -512, 0, 256, -256, 0, -512, 0, 512, -256, 256, -256,
      0, 512, 0, 256, -256, 0, 512, -256, 256, -256, 0, 512, -256, 256, -512, 0,
      256, -256, 256, -512, 0, 256, -256, 0, -512, 0, 256, -256, 256, -512, 128, 512,
      -128, 256, -256, 0, 384, -128, 256, -384, 0, 384, -128, 256, -384, 0, 384, -256,
      128, -384, 0, 384, -256, 128, -384, -128, 256, -256, 128, -512, 128, 512, -128, 256,
      -256, 0, 384, -128, 256, -384, 0, 384, -128, 256, -384, 0, 384, -256, 128, -384,
      0, 384, -256, 256, -384, 0, 384, -128, 256, -384, 0, 384, -256, 128, -384, 0,
      384, -256, 256, -384, 0, 384, -128, 256, -384, 0, 384, -256, 128, -384, 0, 384,
      -256, 128, -384, 64, 384, -128, 192, -384, 0, 384, -192, 192, -384, 0, 320, -192,
      128, -448, 64, 384, -128, 192, -384, 0, 384, -192, 192, -384, 0, 384, -192, 192,
      -384, 0, 384, -192, 192, -384, 0, 384, -192, 192, -384, 0, 384, -192, 192, -352,
      0, 384, -192, 160, -384, 32, 384, -192, 192, -384, 0, 384, -192, 192, -384, 0,
      384, -192, 192, -384, 0, 400, -192, 192, -368, 0, 384, -192, 192, -384, 0, 384,
      -184, 192, -384, 0, 380, -192, 190, -384, 0
    >>

PreservedTerm(potency) == Float(3 * potency, PRESERVED_DEV[potency + 1])

WasteTerm(potency) == Float(3 * (1000 - potency), WASTE_DEV[potency + 1])

RECURSIVE Pow2(_)
Pow2(e) == IF e = 0 THEN 1 ELSE 2 * Pow2(e - 1)

\* the binary exponent of a value of at least 1: the largest e with 2^e <= value
RECURSIVE ExponentFrom(_, _, _)
ExponentFrom(h, d, e) ==
    IF h > Pow2(e + 2) \/ (h = Pow2(e + 2) /\ d >= 0) THEN ExponentFrom(h, d, e + 1) ELSE e

\* d rounded to the nearest multiple of u, a half to the even multiple
RoundToMultiple(d, u) ==
    LET q == d \div u
        r == d % u
    IN  IF 2 * r > u \/ (2 * r = u /\ q % 2 = 1) THEN (q + 1) * u ELSE q * u

\* a + b in double precision, round to nearest even
FloatAdd(a, b) ==
    LET h == a.h + b.h
        d == a.d + b.d
    IN  IF h = 0 THEN Float(0, 0)
        ELSE Float(h, RoundToMultiple(d, Pow2(ExponentFrom(h, d, 0))))

\* sum(...) of Python: left to right from 0
RECURSIVE FloatSum(_)
FloatSum(terms) ==
    IF terms = <<>> THEN Float(0, 0)
    ELSE FloatAdd(FloatSum(SubSeq(terms, 1, Len(terms) - 1)), terms[Len(terms)])

\* round(x, 0): the nearest whole unit, an exact half to the even one
FloatRound(a) ==
    IF a.h % 2 = 0 THEN a.h \div 2
    ELSE LET n == (a.h - 1) \div 2
         IN  IF a.d > 0 THEN n + 1
             ELSE IF a.d < 0 THEN n
             ELSE IF n % 2 = 0 THEN n ELSE n + 1

----------------------------------------------------------------------------
(* Solver: any assignment the routing model of solve_and_report admits *)

\* time_callback: int(time_matrix[from][to])
time_callback(matrix, from, to) == matrix[from][to] \div 100

Customers(hs) == Nodes(hs) \ {0}

\* every ordering of every set of non-depot nodes
RouteSeqs(hs) ==
    UNION {{s \in [1..n -> Customers(hs)] : \A a, b \in 1..n : a # b => s[a] # s[b]} :
           n \in 0..Cardinality(Customers(hs))}

\* the arrival taken for the travel time of the last leg alone
transit_of_last_leg(matrix, route, k) ==
    IF k = 0 THEN 0
    ELSE time_callback(matrix, IF k = 1 THEN 0 ELSE route[k - 1], route[k])

\* the Time cumul at the k-th stop of a route that leaves the depot at 0
RECURSIVE Cumul(_, _, _)
Cumul(matrix, route, k) ==
    IF k = 0 THEN 0
    ELSE Cumul(matrix, route, k - 1)
         + time_callback(matrix, IF k = 1 THEN 0 ELSE route[k - 1], route[k])

\* the Time cumul at the end node (the depot again)
EndCumul(matrix, route) ==
    Cumul(matrix, route, Len(route))
    + time_callback(matrix, IF route = <<>> THEN 0 ELSE route[Len(route)], 0)

\* data['demands']: 0 for a tier-0 node, 1 for any other
Demand(h) == IF h.tier = 0 THEN 0 ELSE 1

\* the Capacity cumul at the end of a route: the demands of its start node and stops
Load(hs, route) ==
    Demand(hs[0]) + Cardinality({k \in 1..Len(route) : Demand(hs[route[k]]) = 1})

\* the dimensions without the SetRange(0, 720) of the non-depot nodes
feasible_without_hard_cap(hs, matrix, route) ==
    /\ \A k \in 1..Len(route) : Cumul(matrix, route, k) <= HORIZON_MIN
    /\ EndCumul(matrix, route) <= HORIZON_MIN
    /\ Load(hs, route) <= VEHICLE_CAPACITY

\* the Time and Capacity dimensions of one vehicle
FeasibleRoute(hs, matrix, route) ==
    /\ \A k \in 1..Len(route) :
          /\ Cumul(matrix, route, k) <= HORIZON_MIN
          /\ hs[route[k]].tier # 0 => Cumul(matrix, route, k) <= HARD_CAP_MIN
    /\ EndCumul(matrix, route) <= HORIZON_MIN
    /\ Load(hs, route) <= VEHICLE_CAPACITY

\* assignments in which two vehicles may be given the same node
solutions_without_disjointness(hs, matrix, vehicles) ==
    {[found |-> TRUE, routes |-> f] :
        f \in {g \in [1..vehicles -> RouteSeqs(hs)] :
                 \A v \in 1..vehicles : FeasibleRoute(hs, matrix, g[v])}}

\* the assignments the solver may return: one route per vehicle, no node twice
Solutions(hs, matrix, vehicles) ==
    {[found |-> TRUE, routes |-> f] :
        f \in {g \in [1..vehicles -> RouteSeqs(hs)] :
                 /\ \A v \in 1..vehicles : FeasibleRoute(hs, matrix, g[v])
                 /\ \A v, w \in 1..vehicles : \A a \in 1..Len(g[v]) : \A b \in 1..Len(g[w]) :
                        (v # w) => g[v][a] # g[w][b]}}

----------------------------------------------------------------------------
(* Objective of the solver *)

Returned(v) == [raised |-> FALSE, value |-> v]

ValueError == [raised |-> TRUE, value |-> 0]

\* the table with the source's weight for every other tier
priority_weight_without_error(tier) ==
    IF tier = 3 THEN Returned(1)
    ELSE IF tier = 2 THEN Returned(2)
    ELSE IF tier = 1 THEN Returned(3)
    ELSE Returned(0)

\* Hospital.get_priority_weight
get_priority_weight(tier) ==
    IF tier = 3 THEN Returned(1)
    ELSE IF tier = 2 THEN Returned(2)
    ELSE IF tier = 1 THEN Returned(3)
    ELSE IF tier = 0 THEN Returned(0)
    ELSE ValueError

\* int(tt * (1.0 / pw) * 100): for a whole-minute tt the truncated quotient
cost_callback(hs, matrix, from, to) ==
    LET pw == IF hs[to].tier = 0 THEN 1 ELSE get_priority_weight(hs[to].tier).value
    IN  matrix[from][to] \div pw

\* SetCumulVarSoftUpperBound: <<bound, coefficient>> of a non-depot tier
SoftBound(tier) ==
    IF tier = 3 THEN <<120, 500>>
    ELSE IF tier = 2 THEN <<180, 200>>
    ELSE <<240, 50>>

\* {1: 50000, 2: 200000, 3: 1000000}.get(h.tier, 0)
DropPenalties == [t \in 0..3 |-> IF t = 1 THEN 50000
                                 ELSE IF t = 2 THEN 200000
                                 ELSE IF t = 3 THEN 1000000
                                 ELSE 0]

\* the arc costs into the stops 1..k of a route
RECURSIVE InboundCosts(_, _, _, _)
InboundCosts(hs, matrix, route, k) ==
    IF k = 0 THEN 0
    ELSE cost_callback(hs, matrix, IF k = 1 THEN 0 ELSE route[k - 1], route[k])
         + InboundCosts(hs, matrix, route, k - 1)

\* the arc costs of one vehicle's route, depot to depot; an unused vehicle costs 0
ArcCosts(hs, matrix, route) ==
    IF route = <<>> THEN 0
    ELSE InboundCosts(hs, matrix, route, Len(route))
         + cost_callback(hs, matrix, route[Len(route)], 0)

\* the soft-bound cost of the stops 1..k of a route
RECURSIVE SoftCosts(_, _, _, _)
SoftCosts(hs, matrix, route, k) ==
    IF k = 0 THEN 0
    ELSE LET sb == SoftBound(hs[route[k]].tier)
             late == Cumul(matrix, route, k) - sb[1]
         IN  (IF hs[route[k]].tier # 0 /\ late > 0 THEN sb[2] * late ELSE 0)
             + SoftCosts(hs, matrix, route, k - 1)

\* the nodes some vehicle visits
VisitedNodes(routes) == UNION {{routes[v][k] : k \in 1..Len(routes[v])} : v \in DOMAIN routes}

\* the penalties of a set of dropped nodes
RECURSIVE DropCosts(_, _, _)
DropCosts(hs, nodes, penalties) ==
    IF nodes = {} THEN 0
    ELSE LET n == CHOOSE x \in nodes : TRUE
         IN  penalties[hs[n].tier] + DropCosts(hs, nodes \ {n}, penalties)

\* the arc and soft-bound costs of the vehicles 1..v
RECURSIVE RouteCosts(_, _, _, _)
RouteCosts(hs, matrix, routes, v) ==
    IF v = 0 THEN 0
    ELSE ArcCosts(hs, matrix, routes[v])
         + SoftCosts(hs, matrix, routes[v], Len(routes[v]))
         + RouteCosts(hs, matrix, routes, v - 1)

\* what the solver minimises: arc costs, soft-bound costs, and the penalty of
\* every dropped node
Objective(hs, matrix, routes, penalties) ==
    RouteCosts(hs, matrix, routes, Len(routes))
    + DropCosts(hs, Customers(hs) \ VisitedNodes(routes), penalties)

\* the assignments of greatest objective
solutions_of_greatest_objective(hs, matrix, vehicles, penalties) ==
    {s \in Solutions(hs, matrix, vehicles) :
        \A t \in Solutions(hs, matrix, vehicles) :
            Objective(hs, matrix, s.routes, penalties)
              >= Objective(hs, matrix, t.routes, penalties)}

\* the assignments of least objective among those the solver may return
OptimalSolutions(hs, matrix, vehicles, penalties) ==
    {s \in Solutions(hs, matrix, vehicles) :
        \A t \in Solutions(hs, matrix, vehicles) :
            Objective(hs, matrix, s.routes, penalties)
              <= Objective(hs, matrix, t.routes, penalties)}

----------------------------------------------------------------------------
(* Plan export *)

Step(h, arr_min, potency, triage) ==
    [name |-> h.name, tier |-> h.tier, arrival_time_min |-> arr_min,
     lat |-> h.lat, lon |-> h.lon, potency |-> potency, triage |-> triage]

\* the steps without the closing depot entry
all_steps_without_end(hs, matrix, route) ==
    <<Step(hs[0], 0, RoundedPotency(0), TriageOf(0))>>
    \o [k \in 1..Len(route) |->
           Step(hs[route[k]], Cumul(matrix, route, k),
                RoundedPotency(Cumul(matrix, route, k)),
                TriageOf(Cumul(matrix, route, k)))]

\* lines 205-240: the start node, every visited node, the end node
AllSteps(hs, matrix, route) ==
    <<Step(hs[0], 0, RoundedPotency(0), TriageOf(0))>>
    \o [k \in 1..Len(route) |->
           Step(hs[route[k]], Cumul(matrix, route, k),
                RoundedPotency(Cumul(matrix, route, k)),
                TriageOf(Cumul(matrix, route, k)))]
    \o <<Step(hs[0], EndCumul(matrix, route), 1000, "DEPOT")>>

\* a split that cancels only below 30 percent
is_futile_below_30(step) == step.tier # 0 /\ step.potency < 300

\* line 245
IsFutile(step) == step.tier # 0 /\ step.potency < FUTILITY_THRESHOLD * 10

IsViable(step) == ~IsFutile(step)

Cancel(step) == [step EXCEPT !.triage = "CANCELED"]

RECURSIVE MapCancel(_)
MapCancel(steps) ==
    IF steps = <<>> THEN <<>> ELSE <<Cancel(Head(steps))>> \o MapCancel(Tail(steps))

IsStop(step) == step.tier # 0

RECURSIVE PreservedTerms(_)
PreservedTerms(stops) ==
    IF stops = <<>> THEN <<>>
    ELSE <<PreservedTerm(Head(stops).potency)>> \o PreservedTerms(Tail(stops))

RECURSIVE WasteTerms(_)
WasteTerms(stops) ==
    IF stops = <<>> THEN <<>>
    ELSE <<WasteTerm(Head(stops).potency)>> \o WasteTerms(Tail(stops))

\* lines 268-288: the three rounded money values of one vehicle
Financial(viable, canceled) ==
    LET van_stops == SelectSeq(viable, IsStop)
        van_preserved == FloatSum(PreservedTerms(van_stops))
        canceled_waste == Len(canceled) * DOSE_VALUE_AUD
        van_waste == FloatAdd(FloatSum(WasteTerms(van_stops)), Float(2 * canceled_waste, 0))
        van_mission == (Len(van_stops) + Len(canceled)) * DOSE_VALUE_AUD
    IN  [mission_value |-> van_mission,
         preserved_value |-> FloatRound(van_preserved),
         waste_value |-> FloatRound(van_waste)]

\* lines 204-289: one entry of output_data
VehicleEntry(hs, matrix, vid, route) ==
    LET all_steps == AllSteps(hs, matrix, route)
        viable == SelectSeq(all_steps, IsViable)
        canceled == MapCancel(SelectSeq(all_steps, IsFutile))
    IN  [vehicle_id |-> vid, steps |-> viable, canceled |-> canceled,
         financial |-> Financial(viable, canceled)]

RECURSIVE Flatten(_)
Flatten(seqs) == IF seqs = <<>> THEN <<>> ELSE Head(seqs) \o Flatten(Tail(seqs))

RECURSIVE SumSeq(_)
SumSeq(ns) == IF ns = <<>> THEN 0 ELSE Head(ns) + SumSeq(Tail(ns))

CountIn(steps, floor) ==
    Cardinality({k \in 1..Len(steps) : steps[k].tier # 0 /\ steps[k].potency >= floor})

Mission(c) ==
    [name |-> c.name, potency |-> c.potency, tier |-> c.tier,
     original_eta_min |-> c.arrival_time_min]

\* lines 196-326: the payload written to output/routes.json
Payload(hs, matrix, vehicles, routes, avoid, snapped) ==
    LET output_data == [v \in 1..vehicles |-> VehicleEntry(hs, matrix, v - 1, routes[v])]
        all_steps == Flatten([v \in 1..vehicles |-> output_data[v].steps])
        all_canceled == Flatten([v \in 1..vehicles |-> output_data[v].canceled])
        fleet_served == Len(SelectSeq(all_steps, IsStop))
    IN  [routes |-> output_data,
         analytics |->
           [fleet_stops_served |-> fleet_served,
            incident_active |-> avoid.set,
            snapped_road |-> IF snapped.set THEN snapped.name ELSE "",
            clinical_outcomes |->
              [doses_saved |-> CountIn(all_steps, 600),
               cardiac_ready |-> CountIn(all_steps, 700),
               avoided_waste_count |-> Len(all_canceled),
               avoided_waste_cost |-> Len(all_canceled) * DOSE_VALUE_AUD,
               canceled_missions |-> [k \in 1..Len(all_canceled) |-> Mission(all_canceled[k])]],
            financial |->
              [dose_value |-> DOSE_VALUE_AUD,
               total_mission_value |->
                   fleet_served * DOSE_VALUE_AUD + Len(all_canceled) * DOSE_VALUE_AUD,
               total_preserved_value |->
                   SumSeq([v \in 1..vehicles |-> output_data[v].financial.preserved_value]),
               total_waste_value |->
                   SumSeq([v \in 1..vehicles |-> output_data[v].financial.waste_value])]]]

\* json.dump(payload, f): the file holds one JSON object with these two keys
JsonObject(payload) ==
    [exists |-> TRUE, kind |-> "object", keys |-> {"routes", "analytics"},
     routes |-> payload.routes, analytics |-> payload.analytics]

\* len(data) of the value json.load returns: the keys of an object
JsonLen(file) == Cardinality(file.keys)

----------------------------------------------------------------------------
(* solve_and_report *)

SnapOutcomes == {"snapped", "failed"}

\* snap_to_road: the nearest road point (here 100 m up the axis), or the input
snap_to_road(lat, lon, outcome) ==
    IF outcome = "snapped"
    THEN [set |-> TRUE, lat |-> lat + 1, lon |-> lon, name |-> "M5 Motorway"]
    ELSE [set |-> TRUE, lat |-> lat, lon |-> lon, name |-> ""]

SnappedPoint(ap, snap) ==
    LET snapped == snap_to_road(ap.lat, ap.lon, snap)
    IN  AvoidPoint(snapped.lat, snapped.lon)

\* IsotopeOptimizer.solve_and_report(avoid_point) on an optimizer holding hs,
\* matrix, vehicles and snapped: snap and rewrite when an avoid-point is given,
\* then solve, then export when a solution was found
SolveAndReportOn(hs, matrix, vehicles, snapped, ap, snap, answers) ==
    /\ avoid_point' = IF ap.set THEN SnappedPoint(ap, snap) ELSE NoAvoidPoint
    /\ snapped_incident' = IF ap.set THEN snap_to_road(ap.lat, ap.lon, snap) ELSE snapped
    /\ distance_matrix' =
          IF ap.set
          THEN apply_osrm_detour_durations(hs, matrix, avoid_point', answers)
          ELSE matrix
    /\ \E sol \in Solutions(hs, distance_matrix', vehicles) \cup {NoSolution} :
          /\ solution' = sol
          /\ routes_file' =
                IF sol.found
                THEN JsonObject(Payload(hs, distance_matrix', vehicles, sol.routes,
                                        avoid_point', snapped_incident'))
                ELSE routes_file

\* solve_and_report on the optimizer of the state
SolveAndReport(ap, snap, answers) ==
    /\ SolveAndReportOn(hospitals, distance_matrix, num_vehicles, snapped_incident,
                        ap, snap, answers)
    /\ UNCHANGED <<hospitals, num_vehicles>>

----------------------------------------------------------------------------
(* Specification of one optimizer: solves, with and without an avoid-point *)

\* a 7-minute hop
ShortMatrix == MatrixOf(<<<<0, 7>>, <<7, 0>>>>)

\* legs long enough for a dose to arrive futile
LongMatrix == MatrixOf(<<<<0, 300, 560>>, <<300, 0, 290>>, <<560, 290, 0>>>>)

NoClient == [present |-> FALSE, token |-> FALSE]

\* the optimizer as its caller set it up: constructed, num_vehicles assigned
\* (tests/test_optimizer.py:42, simulator_dynamic.py:140) or left at its default
InitPlan ==
    /\ \/ ConstructCustom(TestHospitals, SimpleMatrix) /\ num_vehicles = 1
       \/ ConstructCustom(TestHospitals, LongMatrix) /\ num_vehicles = 2
       \/ ConstructCustom(TwoHospitals, HorizonMatrix) /\ num_vehicles = DEFAULT_NUM_VEHICLES
       \/ ConstructCustom(TwoHospitals, ShortMatrix) /\ num_vehicles = 1
       \/ ConstructGenerated(TestHospitals, NoClient, Uniform(TestHospitals, "throws"))
          /\ num_vehicles = DEFAULT_NUM_VEHICLES
       \/ ConstructGenerated(SpreadHospitals, NoClient, Uniform(SpreadHospitals, "throws"))
          /\ num_vehicles = 1
    /\ routes_file = NoFile
    /\ response = NoResponse
    /\ original = distance_matrix
    /\ incident = NoAvoidPoint
    /\ solution = NoSolution
    /\ rewrites = 0
    /\ scenario = NoScenario
    /\ jobs = NoJobs
    /\ pc = "constructed"

\* optimizer.solve_and_report(): the one solve each caller in the repository makes
SolvePlain ==
    /\ pc = "constructed"
    /\ SolveAndReport(NoAvoidPoint, "failed", <<>>)
    /\ pc' = "reported"
    /\ original' = distance_matrix
    /\ incident' = avoid_point'
    /\ UNCHANGED <<response, rewrites, scenario, jobs>>

\* optimizer.solve_and_report(avoid_point)
SolveDisrupted ==
    /\ pc = "constructed"
    /\ \E ap \in AvoidPoints : \E snap \in SnapOutcomes :
         \E answers \in [QueriedArcs(hospitals, SnappedPoint(ap, snap)) -> RouterOutcomes] :
            SolveAndReport(ap, snap, answers)
    /\ pc' = "reported"
    /\ original' = distance_matrix
    /\ incident' = avoid_point'
    /\ rewrites' = rewrites + 1
    /\ UNCHANGED <<response, scenario, jobs>>

NextPlan == SolvePlain \/ SolveDisrupted

SpecPlan == InitPlan /\ [][NextPlan]_vars

\* optimizer.solve_and_report() once more on an optimizer that has solved with an
\* avoid-point; original and incident keep what they were at that first solve
SolveAgain ==
    /\ pc = "reported"
    /\ incident.set
    /\ SolveAndReport(NoAvoidPoint, "failed", <<>>)
    /\ pc' = "reported again"
    /\ UNCHANGED <<response, original, incident, rewrites, scenario, jobs>>

\* the single-vehicle optimizers among those of InitPlan
InitReuse == InitPlan /\ num_vehicles = 1

NextReuse == NextPlan \/ SolveAgain

SpecReuse == InitReuse /\ [][NextReuse]_vars

----------------------------------------------------------------------------
(* Specification of a plan job on any hospital input: load, build, solve *)

\* the tiers the entries of a hospital file are given here
InputTiers == {0, 1, 3}

\* the hospital file with the given tiers, entry by entry
HospitalInput(tiers) ==
    [i \in 0..(Len(tiers) - 1) |->
        Hospital(<<"H0", "H1", "H2">>[i + 1], <<0, 100, 0 - 400>>[i + 1], 0, tiers[i + 1])]

\* every file of two or three entries
HospitalInputs ==
    {HospitalInput(t) : t \in [1..2 -> InputTiers] \cup [1..3 -> InputTiers]}

\* index 0 is the only tier-0 entry
ValidHospitalSet(hs) == \A i \in Nodes(hs) : (hs[i].tier = 0) <=> (i = 0)

\* IsotopeOptimizer(hospitals_file): load_hospitals, then the generated matrix
InitInput ==
    /\ \E hs \in HospitalInputs : ConstructGenerated(hs, NoClient, Uniform(hs, "throws"))
    /\ num_vehicles = 1
    /\ routes_file = NoFile
    /\ response = NoResponse
    /\ original = distance_matrix
    /\ incident = NoAvoidPoint
    /\ solution = NoSolution
    /\ rewrites = 0
    /\ scenario = NoScenario
    /\ jobs = NoJobs
    /\ pc = "constructed"

NextInput == SolvePlain

SpecInput == InitInput /\ [][NextInput]_vars

----------------------------------------------------------------------------
(* Specification of one optimizer whose solver returns a plan of least objective *)

\* leg times in minutes of the custom matrices
Legs == {10, 40, 50, 400}

\* the symmetric matrix with legs a (0-1), b (0-2) and c (1-2)
LegMatrix(a, b, c) == MatrixOf(<<<<0, a, b>>, <<a, 0, c>>, <<b, c, 0>>>>)

InitObjective ==
    /\ \E a, b, c \in Legs : ConstructCustom(TestHospitals, LegMatrix(a, b, c))
    /\ num_vehicles \in {1, 2}
    /\ routes_file = NoFile
    /\ response = NoResponse
    /\ original = distance_matrix
    /\ incident = NoAvoidPoint
    /\ solution = NoSolution
    /\ rewrites = 0
    /\ scenario = NoScenario
    /\ jobs = NoJobs
    /\ pc = "constructed"

\* solve_and_report() with a solver that reaches the minimum of its objective
SolveOptimal ==
    /\ pc = "constructed"
    /\ \E sol \in OptimalSolutions(hospitals, distance_matrix, num_vehicles, DropPenalties) :
          /\ solution' = sol
          /\ routes_file' = JsonObject(Payload(hospitals, distance_matrix, num_vehicles,
                                               sol.routes, NoAvoidPoint, snapped_incident))
    /\ avoid_point' = NoAvoidPoint
    /\ pc' = "reported"
    /\ UNCHANGED <<hospitals, distance_matrix, snapped_incident, num_vehicles,
                   response, original, incident, rewrites, scenario, jobs>>

NextObjective == SolveOptimal

SpecObjective == InitObjective /\ [][NextObjective]_vars

\* a depot and two tier-3 hospitals
CriticalHospitals ==
    FromSeq(<<Hospital("Source", 0, 0, 0), Hospital("Dest1", 100, 0, 3),
              Hospital("Dest2", 0 - 400, 0, 3)>>)

\* the problems on which the drop penalties are compared
InitPenalty ==
    /\ \E hs \in {TestHospitals, CriticalHospitals} : \E a, b, c \in Legs :
          ConstructCustom(hs, LegMatrix(a, b, c))
    /\ num_vehicles \in {1, 2}
    /\ routes_file = NoFile
    /\ response = NoResponse
    /\ original = distance_matrix
    /\ incident = NoAvoidPoint
    /\ solution = NoSolution
    /\ rewrites = 0
    /\ scenario = NoScenario
    /\ jobs = NoJobs
    /\ pc = "constructed"

NextPenalty == SolveOptimal

SpecPenalty == InitPenalty /\ [][NextPenalty]_vars

----------------------------------------------------------------------------
(* Specification of the HTTP API: a sequence of Optimize jobs on one result file *)

\* hospitals.json as the server finds it
HospitalsFile == TwoHospitals

\* where the requests of this specification click
RequestPoints == {AvoidPoint(50, 0)}

\* TFNSW_API_TOKEN unset, or set with every trip answered by a journey
Environments ==
    {[client |-> NoClient, trip |-> "throws"],
     [client |-> [present |-> TRUE, token |-> TRUE], trip |-> "journey"]}

InitApi ==
    /\ ConstructGenerated(HospitalsFile, NoClient, Uniform(HospitalsFile, "throws"))
    /\ num_vehicles = DEFAULT_NUM_VEHICLES
    /\ routes_file = NoFile
    /\ response = NoResponse
    /\ original = distance_matrix
    /\ incident = NoAvoidPoint
    /\ solution = NoSolution
    /\ rewrites = 0
    /\ scenario = NoScenario
    /\ jobs = NoJobs
    /\ pc = "serving"

\* lines 53-71 of api.optimize_routes around solve_and_report: a fresh default
\* optimizer before it; after it the result file read back if it exists, else
\* a 500
OptimizeRoutes(env, request, snap, answers) ==
    /\ pc = "serving"
    /\ hospitals' = HospitalsFile
    /\ num_vehicles' = DEFAULT_NUM_VEHICLES
    /\ original' = generate_distance_matrix(HospitalsFile, env.client,
                                            Uniform(HospitalsFile, env.trip))
    /\ SolveAndReportOn(hospitals', original', num_vehicles', NoSnap,
                        request, snap, answers)
    /\ incident' = avoid_point'
    /\ response' = IF routes_file'.exists
                   THEN [status |-> 200, body |-> routes_file']
                   ELSE [status |-> 500]
    /\ UNCHANGED <<rewrites, pc, scenario, jobs>>

\* POST /optimize without an avoid_point
OptimizePlain ==
    \E env \in Environments : OptimizeRoutes(env, NoAvoidPoint, "failed", <<>>)

\* POST /optimize with an avoid_point
OptimizeDisrupted ==
    \E env \in Environments : \E request \in RequestPoints :
       \E snap \in SnapOutcomes : \E o \in RouterOutcomes :
          OptimizeRoutes(env, request, snap, Uniform(HospitalsFile, o))

NextApi == OptimizePlain \/ OptimizeDisrupted

SpecApi == InitApi /\ [][NextApi]_vars

----------------------------------------------------------------------------
(* Dynamic simulator and the Simulate endpoint *)

\* the names that contain the Metro name of line 57
MetroNames == {"St George Hospital"}

\* index of the first entry from k on whose flag is set, or 0
RECURSIVE FirstEntry(_, _)
FirstEntry(flags, k) ==
    IF k > Len(flags) THEN 0
    ELSE IF flags[k] THEN k
    ELSE FirstEntry(flags, k + 1)

\* line 57: more than one step and the Metro name in steps[0]
StartsAtMetro(r) == Len(r.steps) > 1 /\ r.steps[1].name \in MetroNames

\* line 65: a step and tier 1 at steps[0]
StartsAtTier1(r) == Len(r.steps) > 0 /\ r.steps[1].tier = 1

\* lines 51-68 on a list of vehicle entries: the Metro loop, then the tier-1 loop
pick_target(entries) ==
    LET metro == FirstEntry([k \in 1..Len(entries) |-> StartsAtMetro(entries[k])], 1)
        urgent == FirstEntry([k \in 1..Len(entries) |-> StartsAtTier1(entries[k])], 1)
    IN  IF metro # 0 THEN entries[metro].vehicle_id
        ELSE IF urgent # 0 THEN entries[urgent].vehicle_id
        ELSE None

\* lines 48-68 on the value json.load returns: iterating an object yields its
\* keys, and r['steps'] on a key raises TypeError
select_target(routes_data) ==
    IF routes_data.kind = "object"
    THEN [error |-> "TypeError", target_vid |-> None]
    ELSE [error |-> "", target_vid |-> pick_target(routes_data.entries)]

\* lines 48-72 on the result file as the scenario finds it
ScenarioOn(file) ==
    IF ~file.exists
    THEN [ran |-> TRUE, error |-> "FileNotFoundError", target_vid |-> None,
          routes_data |-> NoFile]
    ELSE [ran |-> TRUE, error |-> select_target(file).error,
          target_vid |-> select_target(file).target_vid, routes_data |-> file]

\* the answer of simulate_disruption (lines 80-96) after a scenario
SimulateResponse(outcome, file) ==
    IF outcome.error # ""
    THEN [status |-> 500, detail |-> outcome.error]
    ELSE [status |-> 200, rerouted_plan |-> file, summary |-> "Simulation complete."]

\* DynamicSimulator() and run_m5_scenario up to the choice of a target: the
\* baseline solve of a fresh default optimizer, the result file read back, the
\* target chosen.  A run that raises or finds no target ends here (lines 70-72).
run_m5_scenario(env) ==
    /\ hospitals' = HospitalsFile
    /\ num_vehicles' = DEFAULT_NUM_VEHICLES
    /\ original' = generate_distance_matrix(HospitalsFile, env.client,
                                            Uniform(HospitalsFile, env.trip))
    /\ SolveAndReportOn(hospitals', original', num_vehicles', NoSnap,
                        NoAvoidPoint, "failed", <<>>)
    /\ incident' = avoid_point'
    /\ scenario' = ScenarioOn(routes_file')
    /\ scenario'.error # "" \/ scenario'.target_vid = None

\* POST /simulate-disruption: the scenario, then whatever result file exists is
\* returned as the rerouted plan; an exception of the scenario becomes a 500
SimulateDisruption ==
    /\ pc = "serving"
    /\ \E env \in Environments : run_m5_scenario(env)
    /\ response' = SimulateResponse(scenario', routes_file')
    /\ UNCHANGED <<rewrites, pc, jobs>>

NextSimulator == OptimizePlain \/ SimulateDisruption

SpecSimulator == InitApi /\ [][NextSimulator]_vars

----------------------------------------------------------------------------
(* Specification of the service under concurrent requests: the handlers are  *)
(* plain functions, which the framework runs in worker threads; each thread  *)
(* writes the result file and later reads it back.                           *)

JobIds == 1..MaxJobs

JobKinds == {"optimize", "simulate"}

\* a request taken up by a worker thread; own is the payload its own solve wrote
Accepted(kind) == [kind |-> kind, pc |-> "accepted", own |-> NoFile, response |-> NoResponse]

InitJobs ==
    /\ ConstructGenerated(HospitalsFile, NoClient, Uniform(HospitalsFile, "throws"))
    /\ num_vehicles = DEFAULT_NUM_VEHICLES
    /\ routes_file = NoFile
    /\ response = NoResponse
    /\ original = distance_matrix
    /\ incident = NoAvoidPoint
    /\ solution = NoSolution
    /\ rewrites = 0
    /\ scenario = NoScenario
    /\ jobs \in [JobIds -> {Accepted(kind) : kind \in JobKinds}]
    /\ pc = "serving"

\* a thread up to the end of its solve_and_report(): api.py lines 55-61 of an
\* Optimize job, simulator_dynamic.py lines 27 and 46 of a Simulate job
JobSolve(j) ==
    /\ jobs[j].pc = "accepted"
    /\ \E env \in Environments :
          /\ hospitals' = HospitalsFile
          /\ num_vehicles' = DEFAULT_NUM_VEHICLES
          /\ original' = generate_distance_matrix(HospitalsFile, env.client,
                                                  Uniform(HospitalsFile, env.trip))
          /\ SolveAndReportOn(hospitals', original', num_vehicles', NoSnap,
                              NoAvoidPoint, "failed", <<>>)
    /\ incident' = avoid_point'
    /\ jobs' = [jobs EXCEPT ![j].pc = "solved",
                            ![j].own = IF solution'.found THEN routes_file' ELSE NoFile]
    /\ UNCHANGED <<response, rewrites, pc, scenario>>

\* the rest of an Optimize job: api.py lines 63-71
OptimizeReadBack(j) ==
    /\ jobs[j].kind = "optimize"
    /\ jobs[j].pc = "solved"
    /\ response' = IF routes_file.exists
                   THEN [status |-> 200, body |-> routes_file]
                   ELSE [status |-> 500]
    /\ jobs' = [jobs EXCEPT ![j].pc = "returned", ![j].response = response']
    /\ UNCHANGED <<hospitals, distance_matrix, avoid_point, snapped_incident, num_vehicles,
                   routes_file, original, incident, solution, rewrites, pc, scenario>>

\* the rest of a Simulate job: simulator_dynamic.py lines 48-72, api.py lines 80-96
SimulateReadBack(j) ==
    /\ jobs[j].kind = "simulate"
    /\ jobs[j].pc = "solved"
    /\ scenario' = ScenarioOn(routes_file)
    /\ scenario'.error # "" \/ scenario'.target_vid = None
    /\ response' = SimulateResponse(scenario', routes_file)
    /\ jobs' = [jobs EXCEPT ![j].pc = "returned", ![j].response = response']
    /\ UNCHANGED <<hospitals, distance_matrix, avoid_point, snapped_incident, num_vehicles,
                   routes_file, original, incident, solution, rewrites, pc>>

NextJobs == \E j \in JobIds : JobSolve(j) \/ OptimizeReadBack(j) \/ SimulateReadBack(j)

SpecJobs == InitJobs /\ [][NextJobs]_vars

----------------------------------------------------------------------------
(* Specification of the priority weight: hospitals of any tier value, weighed *)

TierValues == (0 - 2)..MaxTier

InitWeight ==
    /\ \E a, b \in TierValues :
          ConstructCustom(FromSeq(<<Hospital("T", 0, 0, a), Hospital("T", 0, 0, b)>>),
                          ShortMatrix)
    /\ num_vehicles = DEFAULT_NUM_VEHICLES
    /\ routes_file = NoFile
    /\ response = NoResponse
    /\ original = distance_matrix
    /\ incident = NoAvoidPoint
    /\ solution = NoSolution
    /\ rewrites = 0
    /\ scenario = NoScenario
    /\ jobs = NoJobs
    /\ pc = "constructed"

\* h.get_priority_weight() on one of the hospitals
PriorityWeight ==
    /\ \E i \in Nodes(hospitals) :
          response' = [tier |-> hospitals[i].tier,
                       weight |-> get_priority_weight(hospitals[i].tier)]
    /\ UNCHANGED <<hospitals, distance_matrix, avoid_point, snapped_incident, num_vehicles,
                   routes_file, original, incident, solution, rewrites, pc, scenario, jobs>>

NextWeight == PriorityWeight

SpecWeight == InitWeight /\ [][NextWeight]_vars

----------------------------------------------------------------------------
(* Specification of the functions called on their own: each run is one call,   *)
(* its arguments and its outcome kept in response                                *)

\* the calculator without the check of the elapsed time (a time before the start
\* is given the value of the same time after it)
calculate_without_time_check(initial_activity, elapsed_min, half_life_hours) ==
    IF half_life_hours <= 0 THEN ValueError
    ELSE Returned(initial_activity
                  * (POTENCY_MICRO[(6 * Abs(elapsed_min)) \div half_life_hours + 1] \div 10000))

\* DecayCalculator.calculate_remaining_activity, the elapsed time in minutes
\* (time_elapsed_hours * 60) and the value in 1/10000 of the activity unit:
\* 2^-(t / half_life) is the entry of the 6-hour table at minute 6 * t / half_life
calculate_remaining_activity(initial_activity, elapsed_min, half_life_hours) ==
    IF half_life_hours <= 0 THEN ValueError
    ELSE IF elapsed_min < 0 THEN ValueError
    ELSE Returned(initial_activity
                  * (POTENCY_MICRO[(6 * elapsed_min) \div half_life_hours + 1] \div 10000))

\* lines 133-144: the two candidates wp1 and wp2 and the midpoint, for a segment
\* whose length is a whole number of units; the offset 0.045 degrees is 5 km
DetourCandidates(origin, dest, avoid_lat, avoid_lon) ==
    LET dx == dest.lat - origin.lat
        dy == dest.lon - origin.lon
        px == 0 - dy
        py == dx
        mag == IsqrtBetween(px * px + py * py, 0, Abs(px) + Abs(py))
    IN  [mag |-> mag,
         wp1 |-> IF mag = 0 THEN Location(avoid_lat, avoid_lon)
                 ELSE Location(avoid_lat + (px * 50) \div mag, avoid_lon + (py * 50) \div mag),
         wp2 |-> IF mag = 0 THEN Location(avoid_lat, avoid_lon)
                 ELSE Location(avoid_lat - (px * 50) \div mag, avoid_lon - (py * 50) \div mag),
         mid |-> Location((origin.lat + dest.lat) \div 2, (origin.lon + dest.lon) \div 2)]

\* _calculate_detour_waypoint; 0.04 degrees of latitude are 4.4 km
calculate_detour_waypoint(origin, dest, avoid_lat, avoid_lon) ==
    LET c == DetourCandidates(origin, dest, avoid_lat, avoid_lon)
        d1 == get_haversine_distance(c.wp1, c.mid)
        d2 == get_haversine_distance(c.wp2, c.mid)
    IN  IF c.mag = 0 THEN Location(avoid_lat + 44, avoid_lon)
        ELSE IF d1 < d2 THEN c.wp2 ELSE c.wp1

\* a hospital file whose depot carries the Metro name
MetroDepotHospitals ==
    FromSeq(<<Hospital("St George Hospital", 0, 0, 0), Hospital("Dest1", 100, 0, 1),
              Hospital("Dest2", 0 - 400, 0, 3)>>)

\* DynamicSimulator.interpolate_location at the fraction num / den of the way
interpolate_location(origin, dest, num, den) ==
    Hospital("Van_Loc_EnRoute", origin.lat + ((dest.lat - origin.lat) * num) \div den,
             origin.lon + ((dest.lon - origin.lon) * num) \div den, 0)

\* next(h for h in self.hospitals if h.name == name)
HospitalNamed(hs, name) ==
    hs[CHOOSE i \in Nodes(hs) :
          hs[i].name = name /\ \A j \in Nodes(hs) : hs[j].name = name => i <= j]

\* run_m5_scenario lines 77-131 on the target route: where the van is at T=45,
\* the stop ahead of it, and the hospitals of the reduced problem (index 0 of
\* the code's list is index 1 here)
reroute_problem(hs, target_route) ==
    LET steps == target_route.steps
        ahead == 45 < steps[1].arrival_time_min
        next_dest_idx == IF ahead THEN 0 ELSE 1
        prev_h == IF ahead THEN hs[0] ELSE HospitalNamed(hs, steps[1].name)
        next_dest_h == HospitalNamed(hs, steps[next_dest_idx + 1].name)
        duration == IF ahead THEN steps[1].arrival_time_min
                    ELSE steps[2].arrival_time_min - steps[1].arrival_time_min
        elapsed == IF ahead THEN 45 ELSE 45 - steps[1].arrival_time_min
        current_loc == IF duration > 0
                       THEN interpolate_location(prev_h, next_dest_h, elapsed, duration)
                       ELSE interpolate_location(prev_h, next_dest_h, 0, 1)
    IN  IF ~ahead /\ Len(steps) <= 1
        THEN [too_short |-> TRUE, next_dest_h |-> hs[0], remaining_hospitals |-> <<>>]
        ELSE [too_short |-> FALSE, next_dest_h |-> next_dest_h,
              remaining_hospitals |->
                 <<current_loc>>
                 \o [k \in 1..(Len(steps) - next_dest_idx) |->
                        HospitalNamed(hs, steps[k + next_dest_idx].name)]]

InitCalls ==
    /\ ConstructCustom(TestHospitals, SimpleMatrix)
    /\ num_vehicles = DEFAULT_NUM_VEHICLES
    /\ routes_file = NoFile
    /\ response = NoResponse
    /\ original = distance_matrix
    /\ incident = NoAvoidPoint
    /\ solution = NoSolution
    /\ rewrites = 0
    /\ scenario = NoScenario
    /\ jobs = NoJobs
    /\ pc = "constructed"

\* a call of calculate_remaining_activity: half-lives that divide six hours, and
\* those that are no half-life
CalculateRemainingActivity ==
    /\ pc = "constructed"
    /\ \E a \in {0, 50, 100} : \E m \in (0 - 2)..MaxElapsed : \E hl \in {0 - 1, 0, 1, 2, 3, 6} :
          response' = [call |-> "calculate_remaining_activity", initial_activity |-> a,
                       elapsed_min |-> m, half_life_hours |-> hl,
                       result |-> calculate_remaining_activity(a, m, hl)]
    /\ pc' = "called"
    /\ UNCHANGED <<hospitals, distance_matrix, avoid_point, snapped_incident, num_vehicles,
                   routes_file, original, incident, solution, rewrites, scenario, jobs>>

\* a call of _calculate_detour_waypoint: segments from the origin of the plane
\* along an axis or a 3-4-5 direction (or of no length), avoid-points around them
CalculateDetourWaypoint ==
    /\ pc = "constructed"
    /\ \E dest \in {Location(100, 0), Location(0, 100), Location(60, 80),
                     Location(0 - 30, 40), Location(0, 0)} :
       \E lat \in {0 - 10, 0, 30, 50} : \E lon \in {0 - 10, 0, 10, 40, 50} :
          response' = [call |-> "calculate_detour_waypoint", origin |-> Location(0, 0),
                       dest |-> dest, avoid |-> Location(lat, lon),
                       result |-> calculate_detour_waypoint(Location(0, 0), dest, lat, lon)]
    /\ pc' = "called"
    /\ UNCHANGED <<hospitals, distance_matrix, avoid_point, snapped_incident, num_vehicles,
                   routes_file, original, incident, solution, rewrites, scenario, jobs>>

\* lines 51-131 of run_m5_scenario on the vehicle entries of a plan of two
\* vehicles: the target chosen, and the reduced problem built for it
RerouteProblem ==
    /\ pc = "constructed"
    /\ \E sol \in Solutions(MetroDepotHospitals, SimpleMatrix, 2) :
          LET entries == Payload(MetroDepotHospitals, SimpleMatrix, 2, sol.routes,
                                 NoAvoidPoint, NoSnap).routes
              target_vid == pick_target(entries)
          IN  /\ target_vid # None
              /\ response' = [call |-> "reroute_problem", target_route |-> entries[target_vid + 1],
                              reduced |-> reroute_problem(MetroDepotHospitals,
                                                          entries[target_vid + 1])]
    /\ pc' = "called"
    /\ UNCHANGED <<hospitals, distance_matrix, avoid_point, snapped_incident, num_vehicles,
                   routes_file, original, incident, solution, rewrites, scenario, jobs>>

\* run_m5_scenario, scenario A: the arrival of the van that drives on, in minutes
ignorant_arrival_time(base_time) == 45 + base_time * 10

\* the "Viable?" line of the comparison log; the activity in 1/10000 and
\* MIN_ACTIVITY_THRESHOLD * 100 = 25.0 in the same unit
generate_simulation_log(ignorant_time, ignorant_activity) ==
    IF ignorant_activity.value > 25 * 10000 THEN "YES" ELSE "NO (FUTILE)"

\* scenario A for a whole number of minutes between the van and its next stop
GenerateSimulationLog ==
    /\ pc = "constructed"
    /\ \E base_time \in 0..MaxBaseTime :
          LET ignorant_activity ==
                  calculate_remaining_activity(100, ignorant_arrival_time(base_time), 6)
          IN  response' = [call |-> "generate_simulation_log",
                           ignorant_time |-> ignorant_arrival_time(base_time),
                           ignorant_activity |-> ignorant_activity.value,
                           viable |-> generate_simulation_log(
                                          ignorant_arrival_time(base_time), ignorant_activity)]
    /\ pc' = "called"
    /\ UNCHANGED <<hospitals, distance_matrix, avoid_point, snapped_incident, num_vehicles,
                   routes_file, original, incident, solution, rewrites, scenario, jobs>>

NextCalls ==
    \/ CalculateRemainingActivity
    \/ CalculateDetourWaypoint
    \/ RerouteProblem
    \/ GenerateSimulationLog

SpecCalls == InitCalls /\ [][NextCalls]_vars

----------------------------------------------------------------------------
(* Properties of the exported plan *)

\* the per-vehicle entries of the plan on disk
FileRoutes == IF routes_file.exists THEN routes_file.routes ELSE <<>>

Vehicles == DOMAIN FileRoutes

\* C4: every non-depot step kept in a vehicle's steps has a potency of at least
\* 35 percent and every step in its canceled list has a potency below 35 percent,
\* the potency being the value rounded to one decimal of the arrival's decay.
C4_ViableAboveThreshold ==
    \A v \in Vehicles :
        /\ \A k \in 1..Len(FileRoutes[v].steps) :
              LET step == FileRoutes[v].steps[k]
              IN  step.tier # 0 =>
                    /\ step.potency >= FUTILITY_THRESHOLD * 10
                    /\ step.potency = RoundedPotency(step.arrival_time_min)
        /\ \A k \in 1..Len(FileRoutes[v].canceled) :
              LET step == FileRoutes[v].canceled[k]
              IN  /\ step.potency < FUTILITY_THRESHOLD * 10
                  /\ step.potency = RoundedPotency(step.arrival_time_min)

\* a plan with a kept stop and a canceled stop
C4_Witness ==
    /\ \E v \in Vehicles : \E k \in 1..Len(FileRoutes[v].steps) :
          FileRoutes[v].steps[k].tier # 0
    /\ \E v \in Vehicles : FileRoutes[v].canceled # <<>>

\* C5: for every vehicle the rounded preserved value plus the rounded waste value
\* equals the rounded mission value, and the mission value is 1500 times the
\* number of kept non-depot steps plus canceled steps.
C5_ValuesAddUp ==
    \A v \in Vehicles :
        LET fin == FileRoutes[v].financial
        IN  /\ fin.preserved_value + fin.waste_value = fin.mission_value
            /\ fin.mission_value =
                 (Len(SelectSeq(FileRoutes[v].steps, IsStop)) + Len(FileRoutes[v].canceled))
                 * DOSE_VALUE_AUD

\* C6: every vehicle's steps list begins and ends with the depot, also for a
\* vehicle with no stops and for one whose stops were all canceled.
C6_DepotAtBothEnds ==
    \A v \in Vehicles :
        LET steps == FileRoutes[v].steps
        IN  /\ Len(steps) >= 2
            /\ steps[1].name = hospitals[0].name
            /\ steps[Len(steps)].name = hospitals[0].name
            /\ steps[1].tier = 0
            /\ steps[Len(steps)].tier = 0

\* a plan with an unused vehicle, one whose stops were all canceled, and one
\* with a kept stop
C6_Witness ==
    /\ \E v \in Vehicles : Len(FileRoutes[v].steps) = 2 /\ FileRoutes[v].canceled = <<>>
    /\ \E v \in Vehicles : Len(FileRoutes[v].steps) = 2 /\ FileRoutes[v].canceled # <<>>
    /\ \E v \in Vehicles : Len(FileRoutes[v].steps) > 2

\* the non-depot entries of a vehicle's two lists, as <<list, position>>
Entries(v) ==
    {<<"steps", k>> : k \in {n \in 1..Len(FileRoutes[v].steps) :
                                FileRoutes[v].steps[n].tier # 0}}
    \cup {<<"canceled", k>> : k \in 1..Len(FileRoutes[v].canceled)}

EntryName(v, e) ==
    IF e[1] = "steps" THEN FileRoutes[v].steps[e[2]].name
    ELSE FileRoutes[v].canceled[e[2]].name

\* C7: every non-depot node appears at most once across the steps and canceled
\* lists of all vehicles of a plan.
C7_NodeAtMostOnce ==
    \A v, w \in Vehicles : \A e \in Entries(v) : \A f \in Entries(w) :
        EntryName(v, e) = EntryName(w, f) => (v = w /\ e = f)

\* a plan in which two vehicles each serve a node
C7_Witness ==
    \E v, w \in Vehicles : v # w /\ Entries(v) # {} /\ Entries(w) # {}

\* some visiting order brings a vehicle to node n within the hard cap
Reachable(hs, matrix, n) ==
    \E route \in RouteSeqs(hs) :
        /\ route # <<>>
        /\ route[Len(route)] = n
        /\ Cumul(matrix, route, Len(route)) <= HARD_CAP_MIN

\* C8: no plan holds a non-depot stop with an arrival after minute 720, and a
\* node that cannot be reached within 720 minutes is in no route of a solve that
\* found a solution.
C8_HardCapRespected ==
    /\ \A v \in Vehicles : \A e \in Entries(v) :
          (IF e[1] = "steps" THEN FileRoutes[v].steps[e[2]].arrival_time_min
           ELSE FileRoutes[v].canceled[e[2]].arrival_time_min) <= HARD_CAP_MIN
    /\ (pc = "reported" /\ solution.found) =>
          \A n \in Customers(hospitals) :
             ~Reachable(hospitals, distance_matrix, n) =>
                \A v \in DOMAIN solution.routes : \A k \in 1..Len(solution.routes[v]) :
                    solution.routes[v][k] # n

\* a solve that wrote a plan although a node was out of reach
C8_Witness ==
    /\ pc = "reported"
    /\ solution.found
    /\ routes_file.exists
    /\ \E n \in Customers(hospitals) : ~Reachable(hospitals, distance_matrix, n)

\* C9: in any sequence of Optimize jobs, a job whose solve finds no solution gives
\* its caller a failure and never a plan.
C9_NoSolutionGivesFailure ==
    (response.status # 0 /\ ~solution.found) => response.status = 500

\* C10: the data read back after a successful solve with V vehicles is a
\* sequence of exactly V per-vehicle entries.
C10_FileIsRouteSequence ==
    (pc = "reported" /\ solution.found) =>
        /\ routes_file.kind = "array"
        /\ JsonLen(routes_file) = num_vehicles

\* the non-depot steps a plan keeps, over all vehicles
KeptStops == Flatten([v \in Vehicles |-> SelectSeq(FileRoutes[v].steps, IsStop)])

\* C11: for the three-node problem of the simple test with one vehicle, the plan
\* of least objective visits Dest1 and Dest2, both with a potency above 90
\* percent, and cancels nothing.
C11_SimpleCaseAbove90 ==
    (/\ pc = "reported"
     /\ hospitals = TestHospitals
     /\ distance_matrix = SimpleMatrix
     /\ num_vehicles = 1)
    => /\ {KeptStops[k].name : k \in 1..Len(KeptStops)} = {"Dest1", "Dest2"}
       /\ \A k \in 1..Len(KeptStops) : KeptStops[k].potency > 900
       /\ \A v \in Vehicles : FileRoutes[v].canceled = <<>>

\* the labels the plan format names
TriageLabels == {"OPTIMAL", "DEGRADED", "CANCELED", "DEPOT"}

\* C12: every step of a plan carries a label of TriageLabels: a depot entry, at
\* the start and at the end of a route, is DEPOT with potency 100; a kept
\* non-depot stop is OPTIMAL from 70 percent and DEGRADED from 35 to below 70;
\* a canceled stop is CANCELED.
C12_TriageLabels ==
    \A v \in Vehicles :
        /\ \A k \in 1..Len(FileRoutes[v].steps) :
              LET step == FileRoutes[v].steps[k]
              IN  /\ step.triage \in TriageLabels
                  /\ step.tier = 0 => (step.triage = "DEPOT" /\ step.potency = 1000)
                  /\ (step.tier # 0 /\ step.potency >= 700) => step.triage = "OPTIMAL"
                  /\ (step.tier # 0 /\ step.potency >= 350 /\ step.potency < 700)
                        => step.triage = "DEGRADED"
        /\ \A k \in 1..Len(FileRoutes[v].canceled) :
              FileRoutes[v].canceled[k].triage = "CANCELED"

\* the analytic fallback of the cell (i, j)
FallbackCell(hs, i, j) ==
    calculate_duration_fallback(get_haversine_distance(LocOf(hs[i]), LocOf(hs[j])), hs[j].tier)

\* the request of the arc a gets no duration from the client
NoDuration(client, outcomes, a) ==
    \/ ~client.present
    \/ ~client.token
    \/ outcomes[a] \in {"non200", "throws", "no_journey"}

\* C13: whatever the transit client does, the built matrix is N x N with a zero
\* diagonal and a duration off it, and every cell whose request gave no duration
\* (no client, no token, a non-200 answer, an exception) holds the analytic
\* fallback of its distance and destination tier.
C13_BuildFallsBack ==
    \A client \in Clients : \A out, back \in TripOutcomes :
        LET outcomes == Directed(hospitals, out, back)
            built == generate_distance_matrix(hospitals, client, outcomes)
        IN  /\ DOMAIN built = Nodes(hospitals)
            /\ \A i \in Nodes(hospitals) :
                  /\ DOMAIN built[i] = Nodes(hospitals)
                  /\ built[i][i] = 0
                  /\ \A j \in Nodes(hospitals) \ {i} :
                        /\ built[i][j] # None
                        /\ NoDuration(client, outcomes, <<i, j>>)
                              => built[i][j] = FallbackCell(hospitals, i, j)

\* an optimizer whose matrix was built against a client answering 401 throughout
C13_Witness ==
    /\ rewrites = 0
    /\ scenario = NoScenario
    /\ jobs = NoJobs
    /\ Cardinality(Nodes(hospitals)) = 3
    /\ distance_matrix = generate_distance_matrix(hospitals, [present |-> TRUE, token |-> TRUE],
                                                  Uniform(hospitals, "non200"))
    /\ \E a \in Arcs(hospitals) : distance_matrix[a[1]][a[2]] > 0

\* the canceled_missions entries of the plan on disk
CanceledMissions ==
    IF routes_file.exists THEN routes_file.analytics.clinical_outcomes.canceled_missions
    ELSE <<>>

\* the stop k of vehicle v is viable on the matrix before the disruption and
\* futile on the rewritten one
MadeFutile(v, k) ==
    LET route == solution.routes[v]
    IN  /\ hospitals[route[k]].tier # 0
        /\ RoundedPotency(Cumul(original, route, k)) >= FUTILITY_THRESHOLD * 10
        /\ RoundedPotency(Cumul(distance_matrix, route, k)) < FUTILITY_THRESHOLD * 10

\* C14: a stop that a disruption pushes below the futility threshold is in the
\* canceled list, its canceled_missions entry carries as original_eta_min the
\* ETA the stop had before the disruption, and avoided_waste_count is at least 1.
C14_BaselineEtaKept ==
    (pc = "reported" /\ incident.set /\ solution.found) =>
        \A v \in DOMAIN solution.routes : \A k \in 1..Len(solution.routes[v]) :
            MadeFutile(v, k) =>
                LET name == hospitals[solution.routes[v][k]].name
                IN  /\ \E c \in 1..Len(FileRoutes[v].canceled) :
                          FileRoutes[v].canceled[c].name = name
                    /\ \E m \in 1..Len(CanceledMissions) :
                          /\ CanceledMissions[m].name = name
                          /\ CanceledMissions[m].original_eta_min
                               = Cumul(original, solution.routes[v], k)
                    /\ routes_file.analytics.clinical_outcomes.avoided_waste_count >= 1

\* C15: a job whose hospital input has no tier-0 entry, several of them, or its
\* tier-0 entry elsewhere than at index 0 is rejected: no plan comes of it.
C15_InvalidInputRejected ==
    ~ValidHospitalSet(hospitals) => ~routes_file.exists

\* the steps of a vehicle entry that are not the depot
Stops(r) == SelectSeq(r.steps, IsStop)

\* the baseline plan the scenario read has a route whose first non-depot stop is tier 1
BaselineHasUrgentRoute ==
    /\ scenario.ran
    /\ scenario.routes_data.exists
    /\ \E v \in DOMAIN scenario.routes_data.routes :
          /\ Stops(scenario.routes_data.routes[v]) # <<>>
          /\ Stops(scenario.routes_data.routes[v])[1].tier = 1

\* C16: whenever the baseline plan the simulator read contains a route whose first
\* non-depot stop is tier 1, the simulator finds a target vehicle and the scenario
\* goes on without an error.
C16_TargetFound ==
    BaselineHasUrgentRoute => (scenario.target_vid # None /\ scenario.error = "")

\* C18: every Optimize job that returns after its own solve wrote a plan hands its
\* caller exactly that plan: no other job's write comes between a job's write of the
\* result file and its read-back.
C18_JobsSerialized ==
    \A j \in DOMAIN jobs :
        (jobs[j].kind = "optimize" /\ jobs[j].pc = "returned" /\ jobs[j].own.exists)
            => jobs[j].response = [status |-> 200, body |-> jobs[j].own]

\* values of the tier-3 drop penalty: none, below the lateness cost of a long leg,
\* and the one of line 177
Tier3Penalties == {0, 100000, DropPenalties[3]}

\* the penalties of lines 176-180 with another tier-3 entry
WithTier3Penalty(p) == [DropPenalties EXCEPT ![3] = p]

\* the tier-3 nodes an assignment visits
ServedTier3(hs, routes) == Cardinality({n \in VisitedNodes(routes) : hs[n].tier = 3})

\* the numbers of tier-3 nodes served by the solves of the state's problem under
\* tier-3 penalty p
ServedUnder(p) ==
    {ServedTier3(hospitals, s.routes) :
        s \in OptimalSolutions(hospitals, distance_matrix, num_vehicles, WithTier3Penalty(p))}

C20_PriorityWeightTable ==
    ("weight" \in DOMAIN response) =>
        /\ (response.tier = 3) => response.weight = Returned(1)
        /\ (response.tier = 2) => response.weight = Returned(2)
        /\ (response.tier = 1) => response.weight = Returned(3)
        /\ (response.tier = 0) => response.weight = Returned(0)
        /\ (response.tier \notin 0..3) => response.weight = ValueError

\* a hospital of a tier above 3 was weighed and the call raised
C20_Witness ==
    /\ "weight" \in DOMAIN response
    /\ response.tier > 3
    /\ response.weight.raised

\* the last call was one of the named function
Called(name) == "call" \in DOMAIN response /\ response.call = name

\* C21: calculate_remaining_activity raises, and returns no value, whenever the
\* half-life is at most 0 or the elapsed time is negative, whatever the initial
\* activity; with a positive half-life and a non-negative elapsed time it returns
\* a value and raises nothing.
C21_DecayArgumentsChecked ==
    Called("calculate_remaining_activity") =>
        /\ (response.half_life_hours <= 0 \/ response.elapsed_min < 0)
              => response.result = ValueError
        /\ (response.half_life_hours > 0 /\ response.elapsed_min >= 0)
              => ~response.result.raised

\* a call with a negative elapsed time, a positive half-life and a positive activity
\* raised
C21_Witness ==
    /\ Called("calculate_remaining_activity")
    /\ response.elapsed_min < 0
    /\ response.half_life_hours > 0
    /\ response.initial_activity > 0
    /\ response.result.raised

\* C22: in every emitted plan, the stops served (fleet_stops_served) plus the
\* cancellations (avoided_waste_count) are as many as the non-depot nodes the
\* solver's routes visit; a dropped node is counted in neither.
C22_ServedPlusCanceled ==
    (pc = "reported" /\ solution.found) =>
        routes_file.analytics.fleet_stops_served
          + routes_file.analytics.clinical_outcomes.avoided_waste_count
        = Cardinality(VisitedNodes(solution.routes))

\* C23: in every emitted plan, arrival_time_min never decreases along a vehicle's
\* viable step list, from the start depot to the end depot, the canceled stops
\* being left out.
C23_ArrivalsNonDecreasing ==
    \A v \in Vehicles : \A k \in 1..(Len(FileRoutes[v].steps) - 1) :
        FileRoutes[v].steps[k].arrival_time_min <= FileRoutes[v].steps[k + 1].arrival_time_min

\* a vehicle's list with a kept stop and a later stop canceled out of it, the end
\* depot reached after the canceled stop's arrival
C23_Witness ==
    /\ pc = "reported"
    /\ \E v \in Vehicles :
          /\ FileRoutes[v].canceled # <<>>
          /\ Len(FileRoutes[v].steps) = 3
          /\ FileRoutes[v].steps[2].arrival_time_min < FileRoutes[v].canceled[1].arrival_time_min
          /\ FileRoutes[v].canceled[1].arrival_time_min < FileRoutes[v].steps[3].arrival_time_min

\* C24: for an impacted segment with origin # destination, the detour waypoint is,
\* of the two candidates avoid-point +/- 0.045 x unit perpendicular, the one nearer
\* to the midpoint of the segment, never the farther one.
C24_NearerCandidate ==
    (/\ Called("calculate_detour_waypoint")
     /\ response.origin # response.dest
     /\ is_segment_impacted(response.origin, response.dest,
                            response.avoid.lat, response.avoid.lon))
    => LET c == DetourCandidates(response.origin, response.dest,
                                 response.avoid.lat, response.avoid.lon)
       IN  /\ response.result \in {c.wp1, c.wp2}
           /\ get_haversine_distance(response.result, c.mid)
                <= get_haversine_distance(c.wp1, c.mid)
           /\ get_haversine_distance(response.result, c.mid)
                <= get_haversine_distance(c.wp2, c.mid)

\* C25: the cost of every arc (i, j) handed to the solver is travel minutes x
\* (1 / w) x 100 rounded to the nearest integer, w being the priority weight of
\* the destination's tier, and 1 for a destination of tier 0.
C25_ArcCostRounded ==
    (pc = "reported") =>
        \A a \in Arcs(hospitals) :
            LET tier == hospitals[a[2]].tier
                w == IF tier = 0 THEN 1 ELSE get_priority_weight(tier).value
            IN  cost_callback(hospitals, distance_matrix, a[1], a[2])
                  = (2 * distance_matrix[a[1]][a[2]] + w) \div (2 * w)

\* C26: when solve_and_report is called with an avoid-point and then again without
\* one on the same optimizer, the second plan has incident_active false and an
\* empty snapped_road, its geometry pass uses no avoid-point, and it is solved on
\* the matrix without the first solve's disruption rewrites.
C26_AvoidPointLivesOneSolve ==
    (pc = "reported again") =>
        /\ avoid_point = NoAvoidPoint
        /\ distance_matrix = original
        /\ solution.found =>
              /\ ~routes_file.analytics.incident_active
              /\ routes_file.analytics.snapped_road = ""

C29_IgnorantJudgedAt35 ==
    Called("generate_simulation_log") =>
        /\ response.viable = "YES" => response.ignorant_activity >= FUTILITY_THRESHOLD * 10000
        /\ response.ignorant_time > 545 => response.viable = "NO (FUTILE)"

====
